---- MODULE Spec2Model ----
(***************************************************************************)
(* A model of the sentence-grammar engine of Doke-parser:                  *)
(*   src/src/parsers/sentence.rs         SentenceParser (one Grammar Set)  *)
(*   src/src/parsers/typed_sentences.rs  TypedSentencesParser (Rule Table) *)
(*   src/src/semantic.rs                 DokeNode, DokeValidate            *)
(*                                                                         *)
(* Text is modelled character by character: a Rust `String` is a sequence  *)
(* of one-character strings, so that trimming, template scanning and the   *)
(* compiled matchers are computed the way the code computes them.          *)
(***************************************************************************)
EXTENDS Integers, Sequences, FiniteSets, TLC

\* ------------------------------------------------------------------------
\* Characters and strings
\* ------------------------------------------------------------------------

Digit == {"0", "1", "2", "3", "4", "5", "6", "7", "8", "9"}

Lower == {"a", "b", "c", "d", "e", "f", "g", "h", "i", "k", "l", "m", "n",
          "o", "r", "s", "t", "u", "v", "w", "x", "y", "z"}

Upper == {"A", "B", "C", "D", "E", "F", "I", "O", "R", "X"}

\* char::is_whitespace, over the characters of the model
White == {" ", "\t"}

Punct == {".", ":", "{", "}", "?", "-", "+", "\""}

\* every character a statement or a template of the model can hold; the
\* regex class `.` (any character but a line break) ranges over it
Alphabet == Digit \cup Lower \cup Upper \cup White \cup Punct

\* char::to_lowercase on the letters of the model
to_lowercase_char(c) ==
    CASE c = "A" -> "a" [] c = "B" -> "b" [] c = "C" -> "c"
      [] c = "D" -> "d" [] c = "E" -> "e" [] c = "F" -> "f"
      [] c = "I" -> "i" [] c = "O" -> "o" [] c = "R" -> "r"
      [] c = "X" -> "x" [] OTHER -> c

\* str::to_lowercase
to_lowercase(s) == [i \in 1..Len(s) |-> to_lowercase_char(s[i])]

\* str::trim_start / trim_end / trim
RECURSIVE trim_start(_)
trim_start(s) ==
    IF s # <<>> /\ Head(s) \in White THEN trim_start(Tail(s)) ELSE s

RECURSIVE trim_end(_)
trim_end(s) ==
    IF s # <<>> /\ s[Len(s)] \in White
    THEN trim_end(SubSeq(s, 1, Len(s) - 1))
    ELSE s

trim(s) == trim_end(trim_start(s))

\* str::trim_end_matches(pred): drops the longest suffix whose characters
\* all satisfy the predicate (here: membership in cs)
RECURSIVE trim_end_matches(_, _)
trim_end_matches(s, cs) ==
    IF s # <<>> /\ s[Len(s)] \in cs
    THEN trim_end_matches(SubSeq(s, 1, Len(s) - 1), cs)
    ELSE s

\* str::starts_with
starts_with(s, prefix) ==
    Len(s) >= Len(prefix) /\ SubSeq(s, 1, Len(prefix)) = prefix

\* str::ends_with
ends_with(s, suffix) ==
    Len(s) >= Len(suffix)
    /\ SubSeq(s, Len(s) - Len(suffix) + 1, Len(s)) = suffix

\* ------------------------------------------------------------------------
\* The `regex` crate, as far as the code uses it: a backtracking matcher
\* over a sequence of items, whose results are listed in the crate's
\* preference order (leftmost-first: a greedy repetition tries the longer
\* run first, a lazy one the shorter, an alternation its branches in order)
\*   [t |-> "set",  cs]          one character of the class cs
\*   [t |-> "star", cs, greedy]  zero or more characters of the class cs
\*   [t |-> "alt",  alts]        alternation of item sequences
\*   [t |-> "opt",  body]        greedy optional item sequence
\*   [t |-> "open"/"close", g]   bounds of capture group g
\*   [t |-> "eol"]               `$`
\* ------------------------------------------------------------------------

NoCapture == [on |-> FALSE, from |-> 0, to |-> 0]

RxSet(cs) == [t |-> "set", cs |-> cs]
RxStar(cs, greedy) == [t |-> "star", cs |-> cs, greedy |-> greedy]
RxPlus(cs, greedy) == <<RxSet(cs), RxStar(cs, greedy)>>
RxAlt(alts) == [t |-> "alt", alts |-> alts]
RxOpt(body) == [t |-> "opt", body |-> body]
RxOpen(g) == [t |-> "open", g |-> g]
RxClose(g) == [t |-> "close", g |-> g]
RxEol == [t |-> "eol"]

\* Regex matching from position p: every way the items `todo` match a
\* prefix of s[p..], in preference order, each with its captures and end.
RECURSIVE regex_run(_, _, _, _)
regex_run(todo, s, p, caps) ==
    IF todo = <<>> THEN << [caps |-> caps, end |-> p] >>
    ELSE
      LET it == Head(todo)
          rest == Tail(todo)
          here == p <= Len(s) /\ s[p] \in it.cs
      IN CASE it.t = "set" ->
                IF here THEN regex_run(rest, s, p + 1, caps) ELSE <<>>
           [] it.t = "star" ->
                IF it.greedy
                THEN (IF here THEN regex_run(todo, s, p + 1, caps) ELSE <<>>)
                     \o regex_run(rest, s, p, caps)
                ELSE regex_run(rest, s, p, caps)
                     \o (IF here THEN regex_run(todo, s, p + 1, caps) ELSE <<>>)
           [] it.t = "alt" ->
                IF it.alts = <<>> THEN <<>>
                ELSE regex_run(Head(it.alts) \o rest, s, p, caps)
                     \o regex_run(<<RxAlt(Tail(it.alts))>> \o rest, s, p, caps)
           [] it.t = "opt" ->
                regex_run(it.body \o rest, s, p, caps)
                \o regex_run(rest, s, p, caps)
           [] it.t = "open" ->
                regex_run(rest, s, p,
                    [caps EXCEPT ![it.g] = [on |-> FALSE, from |-> p, to |-> p]])
           [] it.t = "close" ->
                regex_run(rest, s, p,
                    [caps EXCEPT ![it.g] = [on |-> TRUE, from |-> @.from, to |-> p]])
           [] it.t = "eol" ->
                IF p = Len(s) + 1 THEN regex_run(rest, s, p, caps) ELSE <<>>

\* the captures of a group keep only the groups that closed
RxNoCaps(n) == [g \in 1..n |-> NoCapture]

\* Regex::captures on a pattern anchored with `^`: the first match from the
\* start of the text, or <<>> when there is none
regex_captures(re, ngroups, s) ==
    LET first(all) == IF all = <<>> THEN <<>> ELSE <<Head(all)>>
    IN first(regex_run(re, s, 1, RxNoCaps(ngroups)))

\* the text of capture group g of a match m of s
capture_text(s, m, g) == SubSeq(s, m.caps[g].from, m.caps[g].to - 1)

\* ------------------------------------------------------------------------
\* Grammar Compiler: build_regex_for_phrase (sentence.rs 462-562)
\* ------------------------------------------------------------------------

\* param_re of from_yaml:  \{([^}:]+)(?::([^}]+))?\}
param_re ==
    <<RxSet({"{"}), RxOpen(1)>>
    \o RxPlus(Alphabet \ {"}", ":"}, TRUE)
    \o <<RxClose(1),
         RxOpt(<<RxSet({":"}), RxOpen(2)>>
               \o RxPlus(Alphabet \ {"}"}, TRUE)
               \o <<RxClose(2)>>),
         RxSet({"}"})>>

\* Regex::captures_iter: the successive non-overlapping leftmost matches of
\* re in s from position p on, each [caps, start, end]
RECURSIVE captures_iter(_, _, _, _)
captures_iter(re, ngroups, s, p) ==
    IF p > Len(s) THEN <<>>
    ELSE LET found(all) ==
                 IF all = <<>> THEN captures_iter(re, ngroups, s, p + 1)
                 ELSE <<[caps |-> Head(all).caps, start |-> p, end |-> Head(all).end]>>
                      \o captures_iter(re, ngroups, s, Head(all).end)
         IN found(regex_run(re, s, p, RxNoCaps(ngroups)))

\* replace contiguous whitespace by \s+, escape other chars
RECURSIVE push_literal_from(_, _)
push_literal_from(s, in_space) ==
    IF s = <<>> THEN <<>>
    ELSE IF Head(s) \in White
         THEN (IF in_space THEN <<>> ELSE RxPlus(White, TRUE))
              \o push_literal_from(Tail(s), TRUE)
         ELSE <<RxSet({Head(s)})>> \o push_literal_from(Tail(s), FALSE)

push_literal(buf, s) == buf \o push_literal_from(s, FALSE)

Str_int == <<"i", "n", "t">>
Str_float == <<"f", "l", "o", "a", "t">>
Str_bool == <<"b", "o", "o", "l">>
Str_string == <<"s", "t", "r", "i", "n", "g">>

HexDigit == Digit \cup {"a", "b", "c", "d", "e", "f", "A", "B", "C", "D", "E", "F"}

\* the capture group of a parameter, by (lower-cased) type, as group g
capture_group(param_type, g) ==
    LET ty == to_lowercase(param_type)
        sign == RxOpt(<<RxSet({"-", "+"})>>)
    IN CASE ty = Str_int ->
              <<RxOpen(g), sign,
                RxAlt(<< <<RxSet({"0"}), RxSet({"b", "B"})>> \o RxPlus({"0", "1"}, TRUE),
                         <<RxSet({"0"}), RxSet({"o", "O"})>>
                             \o RxPlus({"0", "1", "2", "3", "4", "5", "6", "7"}, TRUE),
                         <<RxSet({"0"}), RxSet({"x", "X"})>> \o RxPlus(HexDigit, TRUE),
                         RxPlus(Digit, TRUE) >>),
                RxClose(g)>>
         [] ty = Str_float ->
              <<RxOpen(g), sign,
                RxAlt(<< RxPlus(Digit, TRUE) \o <<RxSet({"."}), RxStar(Digit, TRUE)>>,
                         <<RxSet({"."})>> \o RxPlus(Digit, TRUE),
                         RxPlus(Digit, TRUE) >>),
                RxOpt(<<RxSet({"e", "E"}), sign>> \o RxPlus(Digit, TRUE)),
                RxClose(g)>>
         [] ty = Str_bool ->
              <<RxOpen(g),
                RxAlt(<< <<RxSet({"t"}), RxSet({"r"}), RxSet({"u"}), RxSet({"e"})>>,
                         <<RxSet({"f"}), RxSet({"a"}), RxSet({"l"}), RxSet({"s"}), RxSet({"e"})>>,
                         <<RxSet({"y"}), RxSet({"e"}), RxSet({"s"})>>,
                         <<RxSet({"n"}), RxSet({"o"})>>,
                         <<RxSet({"1"})>>,
                         <<RxSet({"0"})>> >>),
                RxClose(g)>>
         [] OTHER ->
              <<RxOpen(g)>> \o RxPlus(Alphabet, FALSE) \o <<RxClose(g)>>

\* one iteration of the loop over param_re's matches: the items and the
\* ParameterDefinition that match m (the g-th) adds
phrase_param(phrase, m) ==
    LET named(name0, param_type) ==
            [name |-> IF ends_with(name0, <<":", "?">>)
                      THEN SubSeq(name0, 1, Len(name0) - 2) ELSE name0,
             param_type |-> param_type,
             optional |-> ends_with(name0, <<":", "?">>)]
    IN named(trim(capture_text(phrase, m, 1)),
             IF m.caps[2].on THEN trim(capture_text(phrase, m, 2)) ELSE Str_string)

RECURSIVE build_regex_loop(_, _, _, _, _)
build_regex_loop(phrase, ms, g, last_end, acc) ==
    IF g > Len(ms)
    THEN \* trailing literal, then `$`
         [regex |-> (IF last_end <= Len(phrase)
                     THEN push_literal(acc.regex, SubSeq(phrase, last_end, Len(phrase)))
                     ELSE acc.regex) \o <<RxEol>>,
          parameters |-> acc.parameters]
    ELSE LET lit(m) == IF m.start > last_end
                       THEN push_literal(acc.regex, SubSeq(phrase, last_end, m.start - 1))
                       ELSE acc.regex
             group_regex(pd, grp) == IF pd.optional
                                     THEN <<RxOpt(RxPlus(White, TRUE) \o grp)>>
                                     ELSE grp
             add(m, pd) ==
                 build_regex_loop(phrase, ms, g + 1, m.end,
                     [regex |-> lit(m) \o group_regex(pd, capture_group(pd.param_type, g)),
                      parameters |-> Append(acc.parameters,
                          [name |-> pd.name, param_type |-> pd.param_type])])
         IN add(ms[g], phrase_param(phrase, ms[g]))

\* Build a regex for a phrase pattern, turning literal whitespace into \s+,
\* and capturing parameter groups according to their types.
build_regex_for_phrase(phrase) ==
    build_regex_loop(phrase, captures_iter(param_re, 2, phrase, 1), 1, 1,
                     [regex |-> <<>>, parameters |-> <<>>])

\* ------------------------------------------------------------------------
\* Values (semantic.rs 12-25) and the parsing of primitives
\* ------------------------------------------------------------------------

\* GodotValue: Nil, Bool, Int, Float, String, Array, Dict, Resource.
\* A HashMap is a function from keys (strings) to values.
Nil == [t |-> "Nil"]
GBool(b) == [t |-> "Bool", b |-> b]
GInt(i) == [t |-> "Int", i |-> i]
GFloat(f) == [t |-> "Float", f |-> f]
GString(s) == [t |-> "String", s |-> s]
GArray(a) == [t |-> "Array", a |-> a]
GDict(m) == [t |-> "Dict", m |-> m]
Resource(type_name, fields) ==
    [t |-> "Resource", type_name |-> type_name, fields |-> fields]

\* HashMap: the empty map, insert (replaces an existing key), get
EmptyMap == <<>>
map_insert(m, k, v) == [x \in (DOMAIN m) \cup {k} |-> IF x = k THEN v ELSE m[x]]
map_has(m, k) == k \in DOMAIN m

\* Result<T, E>
Ok(v) == [ok |-> TRUE, v |-> v]
Err(e) == [ok |-> FALSE, e |-> e]

\* char::to_digit(radix): the value of a digit character, -1 when it is none
digit_value(c, radix) ==
    LET v == CASE c = "0" -> 0 [] c = "1" -> 1 [] c = "2" -> 2 [] c = "3" -> 3
               [] c = "4" -> 4 [] c = "5" -> 5 [] c = "6" -> 6 [] c = "7" -> 7
               [] c = "8" -> 8 [] c = "9" -> 9
               [] c \in {"a", "A"} -> 10 [] c \in {"b", "B"} -> 11
               [] c \in {"c", "C"} -> 12 [] c \in {"d", "D"} -> 13
               [] c \in {"e", "E"} -> 14 [] c \in {"f", "F"} -> 15
               [] OTHER -> -1
    IN IF v < radix THEN v ELSE -1

\* the digits of 2^63 - 1, the largest i64, in the radixes the code uses
RECURSIVE repeat(_, _)
repeat(x, n) == IF n = 0 THEN <<>> ELSE <<x>> \o repeat(x, n - 1)

i64_max_digits(radix) ==
    CASE radix = 2 -> repeat(1, 63)
      [] radix = 8 -> repeat(7, 21)
      [] radix = 16 -> <<7>> \o repeat(15, 15)
      [] OTHER -> <<9, 2, 2, 3, 3, 7, 2, 0, 3, 6, 8, 5, 4, 7, 7, 5, 8, 0, 7>>

RECURSIVE strip_zeros(_)
strip_zeros(ds) == IF ds # <<>> /\ Head(ds) = 0 THEN strip_zeros(Tail(ds)) ELSE ds

\* a > b for digit sequences without leading zeros
RECURSIVE digits_greater(_, _)
digits_greater(a, b) ==
    IF Len(a) # Len(b) THEN Len(a) > Len(b)
    ELSE IF a = <<>> THEN FALSE
    ELSE IF Head(a) # Head(b) THEN Head(a) > Head(b)
    ELSE digits_greater(Tail(a), Tail(b))

\* the digits of 2^63, the magnitude of the smallest i64
i64_min_digits(radix) ==
    CASE radix = 2 -> <<1>> \o repeat(0, 63)
      [] radix = 8 -> <<1>> \o repeat(0, 21)
      [] radix = 16 -> <<8>> \o repeat(0, 15)
      [] OTHER -> <<9, 2, 2, 3, 3, 7, 2, 0, 3, 6, 8, 5, 4, 7, 7, 5, 8, 0, 8>>

i64_overflows(ds, radix, negative) ==
    digits_greater(strip_zeros(ds),
                   IF negative THEN i64_min_digits(radix) ELSE i64_max_digits(radix))

RECURSIVE digits_number(_, _, _)
digits_number(ds, radix, acc) ==
    IF ds = <<>> THEN acc
    ELSE digits_number(Tail(ds), radix, acc * radix + Head(ds))

\* i64::from_str_radix (and str::parse::<i64> for radix 10): an optional
\* sign, then at least one digit of the radix; an error on an empty text, a
\* character that is no digit, or a value outside the 64-bit range
i64_from_str_radix(s, radix) ==
    LET signed == s # <<>> /\ Head(s) \in {"+", "-"}
        negative == signed /\ Head(s) = "-"
        body == IF signed THEN Tail(s) ELSE s
        number(ds) ==
            IF \E i \in 1..Len(ds) : ds[i] < 0 THEN Err("invalid digit found in string")
            ELSE IF i64_overflows(ds, radix, negative)
                 THEN Err("number too large or too small to fit in target type")
            ELSE IF negative THEN Ok(0 - digits_number(strip_zeros(ds), radix, 0))
            ELSE Ok(digits_number(strip_zeros(ds), radix, 0))
    IN IF body = <<>> THEN Err("cannot parse integer from empty string")
       ELSE number([i \in 1..Len(body) |-> digit_value(body[i], radix)])

Float_syntax ==
    <<RxOpt(<<RxSet({"-", "+"})>>),
      RxAlt(<< RxPlus(Digit, TRUE) \o <<RxOpt(<<RxSet({"."}), RxStar(Digit, TRUE)>>)>>,
               <<RxSet({"."})>> \o RxPlus(Digit, TRUE) >>),
      RxOpt(<<RxSet({"e", "E"}), RxOpt(<<RxSet({"-", "+"})>>)>> \o RxPlus(Digit, TRUE)),
      RxEol>>

\* str::parse::<f64>: decimal notation with an optional fraction and an
\* optional exponent.  A Float is kept as the text it was read from, lower
\* case and without a `+` sign (the model compares no two floats of
\* different spelling).
f64_from_str(s) ==
    IF regex_run(Float_syntax, s, 1, <<>>) = <<>>
    THEN Err("invalid float literal")
    ELSE Ok(to_lowercase(IF Head(s) = "+" THEN Tail(s) ELSE s))

is_basic_type(param_type) ==
    to_lowercase(param_type) \in {Str_int, Str_float, Str_bool, Str_string}

parse_basic_parameter(value, param_type) ==
    LET prefixed(a, b) == starts_with(value, <<"0", a>>) \/ starts_with(value, <<"0", b>>)
        \* support hex/octal/binary prefixes
        radix == IF prefixed("b", "B") THEN 2
                 ELSE IF prefixed("o", "O") THEN 8
                 ELSE IF prefixed("x", "X") THEN 16
                 ELSE 10
        int(r) == IF r.ok THEN Ok(GInt(r.v)) ELSE r
        float(r) == IF r.ok THEN Ok(GFloat(r.v)) ELSE r
        bool(v) ==
            IF v \in {<<"t", "r", "u", "e">>, <<"y", "e", "s">>, <<"1">>}
            THEN Ok(GBool(TRUE))
            ELSE IF v \in {<<"f", "a", "l", "s", "e">>, <<"n", "o">>, <<"0">>}
            THEN Ok(GBool(FALSE))
            ELSE Err("Invalid boolean value")
        parsed(ty) ==
            CASE ty = Str_int ->
                   int(i64_from_str_radix(
                           IF radix = 10 THEN value ELSE SubSeq(value, 3, Len(value)),
                           radix))
              [] ty = Str_float -> float(f64_from_str(value))
              [] ty = Str_bool -> bool(to_lowercase(value))
              [] ty = Str_string -> Ok(GString(value))
              [] OTHER -> Err("Unknown basic type")
    IN parsed(to_lowercase(param_type))

\* ------------------------------------------------------------------------
\* Grammar Set construction: SentenceParser::from_yaml (sentence.rs 163-217)
\* ------------------------------------------------------------------------

\* Option<T>
None == <<>>
Some(v) == <<v>>

\* YAML, as yaml_rust2 hands it over.  A document is the sequence of its
\* top-level entries [name, items] in file order; an item of a section is
\* YamlString(phrase) or YamlHash(<<[key, value], ...>>).
YamlNull == [y |-> "Null"]
YamlString(s) == [y |-> "String", s |-> s]
YamlInteger(i) == [y |-> "Integer", i |-> i]
YamlBoolean(b) == [y |-> "Boolean", b |-> b]
YamlHash(entries) == [y |-> "Hash", entries |-> entries]

\* ReturnSpec
Type(name) == [k |-> "Type", name |-> name]
Literal(v) == [k |-> "Literal", v |-> v]
Format(fmt) == [k |-> "Format", fmt |-> fmt]

\* parse RHS yaml node into ReturnSpec
parse_rhs_to_return_spec(node, section_default) ==
    LET scalar(s_trim, low) ==
            LET float_or(asFloat) ==
                    IF asFloat.ok THEN Ok(Literal(GFloat(asFloat.v)))
                    ELSE IF low \in {<<"t", "r", "u", "e">>, <<"y", "e", "s">>, <<"1">>}
                    THEN Ok(Literal(GBool(TRUE)))
                    ELSE IF low \in {<<"f", "a", "l", "s", "e">>, <<"n", "o">>, <<"0">>}
                    THEN Ok(Literal(GBool(FALSE)))
                    ELSE Ok(Type(s_trim))
                int_or(asInt) ==
                    IF asInt.ok THEN Ok(Literal(GInt(asInt.v)))
                    ELSE float_or(f64_from_str(s_trim))
            IN int_or(i64_from_str_radix(s_trim, 10))
        text(s_trim) ==
            LET quoted(c) == Len(s_trim) >= 3 /\ s_trim[1] = c /\ s_trim[2] = "\""
                             /\ s_trim[Len(s_trim)] = "\""
            IN IF quoted("l") THEN Ok(Literal(GString(SubSeq(s_trim, 3, Len(s_trim) - 1))))
               ELSE IF quoted("f") THEN Ok(Format(SubSeq(s_trim, 3, Len(s_trim) - 1)))
               ELSE scalar(s_trim, to_lowercase(s_trim))
    IN CASE node.y = "Null" -> Ok(Type(section_default))
         [] node.y = "String" -> text(trim(node.s))
         [] node.y = "Integer" -> Ok(Literal(GInt(node.i)))
         [] node.y = "Boolean" -> Ok(Literal(GBool(node.b)))
         [] OTHER -> Err([e |-> "InvalidPattern"])

\* PhraseConfig
PhraseConfig(pattern, built, return_spec, section) ==
    [pattern |-> pattern, regex |-> built.regex, parameters |-> built.parameters,
     return_spec |-> return_spec, section |-> section]

\* the phrases one item of a section adds, each Ok(PhraseConfig) or the
\* error that `?` returns from from_yaml
RECURSIVE hash_phrases(_, _)
hash_phrases(entries, section_name) ==
    IF entries = <<>> THEN <<>>
    ELSE LET phrase(e, return_spec) ==
                 IF return_spec.ok
                 THEN Ok(PhraseConfig(e.key, build_regex_for_phrase(e.key),
                                      return_spec.v, section_name))
                 ELSE return_spec
         IN <<phrase(Head(entries),
                     parse_rhs_to_return_spec(Head(entries).value, section_name))>>
            \o hash_phrases(Tail(entries), section_name)

item_phrases(item, section_name) ==
    CASE item.y = "String" ->
           <<Ok(PhraseConfig(item.s, build_regex_for_phrase(item.s),
                             Type(section_name), section_name))>>
      [] item.y = "Hash" -> hash_phrases(item.entries, section_name)
      [] OTHER -> <<>>

RECURSIVE section_phrases(_, _)
section_phrases(items, section_name) ==
    IF items = <<>> THEN <<>>
    ELSE item_phrases(Head(items), section_name)
         \o section_phrases(Tail(items), section_name)

RECURSIVE config_phrases(_)
config_phrases(config) ==
    IF config = <<>> THEN <<>>
    ELSE section_phrases(Head(config).items, Head(config).name)
         \o config_phrases(Tail(config))

\* SentenceParser::from_yaml: the phrases of every section, in file order;
\* the first error aborts the load
from_yaml(config) ==
    LET loaded(built) ==
            LET bad == {i \in 1..Len(built) : ~built[i].ok}
            IN IF bad # {}
               THEN built[CHOOSE i \in bad : \A j \in bad : i <= j]
               ELSE Ok([phrases |-> [i \in 1..Len(built) |-> built[i].v],
                        type_patterns |-> EmptyMap])
    IN loaded(config_phrases(config))

\* ------------------------------------------------------------------------
\* Matching one phrase, ranking the matches (sentence.rs 564-591)
\* ------------------------------------------------------------------------

RECURSIVE raw_params_from(_, _, _, _, _)
raw_params_from(statement, phrase, m, i, out) ==
    IF i > Len(phrase.parameters) THEN out
    ELSE raw_params_from(statement, phrase, m, i + 1,
            IF m.caps[i].on
            THEN map_insert(out, phrase.parameters[i].name,
                            trim(capture_text(statement, m, i)))
            ELSE out)

\* match a phrase exactly using its compiled regex and return raw param strings
match_phrase_exact(statement, phrase) ==
    LET matched(caps) ==
            IF caps = <<>> THEN Err([e |-> "NoMatch", s |-> phrase.pattern])
            ELSE Ok(raw_params_from(statement, phrase, Head(caps), 1, EmptyMap))
    IN matched(regex_captures(phrase.regex, Len(phrase.parameters), statement))

RECURSIVE specificity_literal(_, _, _)
specificity_literal(parameters, i, literal) ==
    IF i > Len(parameters) THEN literal
    ELSE LET cost == Len(parameters[i].name) + Len(parameters[i].param_type) + 4
         IN specificity_literal(parameters, i + 1,
                IF literal >= cost THEN literal - cost ELSE 0)

\* compute specificity: more literal chars and fewer params => higher
\* specificity.  The second component, usize::MAX - params, is kept as
\* -params: the order is the same.
phrase_specificity(p) ==
    <<specificity_literal(p.parameters, 1, Len(p.pattern)), 0 - Len(p.parameters)>>

\* the order of the sort keys (tuples compare lexicographically)
key_less(a, b) == a[1] < b[1] \/ (a[1] = b[1] /\ a[2] < b[2])

\* matches.sort_by_key(..) then matches.pop(): a stable ascending sort
\* leaves, last, the greatest key's last match in the original order
best_match(matches) ==
    CHOOSE i \in 1..Len(matches) :
        /\ \A j \in 1..Len(matches) :
              ~key_less(phrase_specificity(matches[i].phrase),
                        phrase_specificity(matches[j].phrase))
        /\ \A j \in (i + 1)..Len(matches) :
              key_less(phrase_specificity(matches[j].phrase),
                       phrase_specificity(matches[i].phrase))

\* ------------------------------------------------------------------------
\* Nodes, states, hypotheses and results (semantic.rs 27-105,
\* sentence.rs 648-740)
\* ------------------------------------------------------------------------

\* DokeNodeState
Unresolved == [k |-> "Unresolved"]
Hypothesis(hypos) == [k |-> "Hypothesis", hypos |-> hypos]
Resolved(result) == [k |-> "Resolved", result |-> result]
Error(e) == [k |-> "Error", error |-> e]

\* DokeNode
DokeNode(statement, state, children, parse_data, constituents, span) ==
    [statement |-> statement, state |-> state, children |-> children,
     parse_data |-> parse_data, constituents |-> constituents, span |-> span]

\* SentenceParseError::NoMatch
NoMatch(s) == [e |-> "NoMatch", s |-> s]

\* sentence.rs ErrorHypo, the candidate of a statement no phrase matched
ErrorHypo(error, statement) ==
    [h |-> "SentenceParseError", error |-> error, statement |-> statement]

\* A candidate of another parser of the pipeline: any implementor of the
\* public trait Hypo, with the confidence it reports (1.0 by default) and
\* the outcome of its promote()
OtherHypo(conf, outcome) == [h |-> "Other", conf |-> conf, outcome |-> outcome]

\* Hypo::confidence
confidence(hypo) == IF hypo.h = "SentenceParseError" THEN -1 ELSE hypo.conf

\* Hypo::promote
promote(hypo) == IF hypo.h = "SentenceParseError" THEN Err(hypo.error) ELSE hypo.outcome

\* PhraseConfig::make_tr_key: "<SECTION>_<hash of the pattern>".  The key
\* is kept as the text it is computed from, section then pattern: equal
\* inputs give equal keys, and the model tells no two hashes apart that
\* the code could confuse.
make_tr_key(phrase) == phrase.section \o <<"_">> \o phrase.pattern

\* SentenceResult::new_type / new_literal
new_type(ty, params, tr_key) ==
    [r |-> "SentenceResult", output_type |-> ty, parameters |-> params,
     literal_value |-> None, tr_key |-> tr_key]

new_literal(val, params, tr_key) ==
    [r |-> "SentenceResult", output_type |-> <<>>, parameters |-> params,
     literal_value |-> Some(val), tr_key |-> tr_key]

\* a GodotValue used as a result (impl DokeOut for GodotValue)
ValueResult(v) == [r |-> "GodotValue", v |-> v]

Key_children == <<"c", "h", "i", "l", "d", "r", "e", "n">>
Key_doke_tr_key == <<"d", "o", "k", "e", "_", "t", "r", "_", "k", "e", "y">>
Key_abstract_type ==
    <<"a", "b", "s", "t", "r", "a", "c", "t", "_", "t", "y", "p", "e">>
Key_sentence_type ==
    <<"s", "e", "n", "t", "e", "n", "c", "e", "_", "t", "y", "p", "e">>

\* a to_godot that builds the Resource from the parameters alone
to_godot_parameters_only(res) ==
    IF res.r = "GodotValue" THEN res.v
    ELSE IF res.literal_value # None THEN res.literal_value[1]
    ELSE Resource(res.output_type, res.parameters)

\* a to_godot that builds a Resource whatever the result holds
to_godot_always_resource(res) ==
    IF res.r = "GodotValue" THEN res.v
    ELSE Resource(res.output_type,
                  map_insert(res.parameters, Key_doke_tr_key, GString(res.tr_key)))

\* DokeOut::to_godot
to_godot(res) ==
    IF res.r = "GodotValue" THEN res.v
    ELSE IF res.literal_value # None THEN res.literal_value[1]
    ELSE Resource(res.output_type,
                  map_insert(res.parameters, Key_doke_tr_key, GString(res.tr_key)))

\* impl DokeOut for GodotValue: use_child
GodotValue_use_child(v, child) ==
    CASE v.t \in {"Nil", "Bool", "Int", "Float", "String"} ->
           Err([e |-> "InvalidChild", kind |-> v.t])
      [] v.t = "Array" -> Ok(GArray(Append(v.a, child)))
      [] v.t = "Dict" -> Ok(GDict(map_insert(v.m, Key_children, child)))
      [] v.t = "Resource" ->
           LET fields == IF map_has(v.fields, Key_children) THEN v.fields
                         ELSE map_insert(v.fields, Key_children, GArray(<<>>))
               old == fields[Key_children]
           IN IF old.t = "Array"
              THEN Ok(Resource(v.type_name,
                        map_insert(fields, Key_children, GArray(Append(old.a, child)))))
              ELSE Err([e |-> "InvalidChild", kind |-> "children field"])

\* a use_child that puts the child before the children already merged
SentenceResult_use_child_first(res, child) ==
    IF map_has(res.parameters, Key_children)
    THEN Ok([res EXCEPT !.parameters =
                map_insert(@, Key_children, GArray(<<child>> \o @[Key_children].a))])
    ELSE Ok([res EXCEPT !.parameters = map_insert(@, Key_children, GArray(<<child>>))])

\* impl DokeOut for SentenceResult: use_child
SentenceResult_use_child(res, child) ==
    IF map_has(res.parameters, Key_children)
    THEN LET old == res.parameters[Key_children]
         IN IF old.t = "Array"
            THEN Ok([res EXCEPT !.parameters =
                        map_insert(@, Key_children, GArray(Append(old.a, child)))])
            ELSE Err([e |-> "io::Error", msg |-> "children field is not an array"])
    ELSE Ok([res EXCEPT !.parameters = map_insert(@, Key_children, GArray(<<child>>))])

\* DokeOut::use_child: the result after the merge, or the error
use_child(res, child) ==
    LET wrapped(r) == IF r.ok THEN Ok(ValueResult(r.v)) ELSE r
    IN IF res.r = "GodotValue" THEN wrapped(GodotValue_use_child(res.v, child))
       ELSE SentenceResult_use_child(res, child)

\* DokeOut::use_constituent: SentenceResult stores the value under the
\* name; GodotValue keeps the trait's default, which does nothing
use_constituent(res, name, value) ==
    IF res.r = "GodotValue" THEN Ok(res)
    ELSE Ok([res EXCEPT !.parameters = map_insert(@, name, value)])

\* ------------------------------------------------------------------------
\* Return specifications with a format string (sentence.rs 404-460)
\* ------------------------------------------------------------------------

RECURSIVE nat_to_string(_)
nat_to_string(n) ==
    LET d == <<"0", "1", "2", "3", "4", "5", "6", "7", "8", "9">>[(n % 10) + 1]
    IN IF n < 10 THEN <<d>> ELSE nat_to_string(n \div 10) \o <<d>>

\* i64::to_string
int_to_string(i) == IF i < 0 THEN <<"-">> \o nat_to_string(0 - i) ELSE nat_to_string(i)

\* godot_value_to_string, for the values a parsed parameter can hold (the
\* front matter of the model is empty)
godot_value_to_string(v) ==
    CASE v.t = "Nil" -> <<>>
      [] v.t = "Bool" -> IF v.b THEN <<"t", "r", "u", "e">> ELSE <<"f", "a", "l", "s", "e">>
      [] v.t = "Int" -> int_to_string(v.i)
      [] v.t = "Float" -> v.f
      [] v.t = "String" -> v.s

\* the placeholder regex of perform_format_string:  \{([^}]+)\}
format_re ==
    <<RxSet({"{"}), RxOpen(1)>> \o RxPlus(Alphabet \ {"}"}, TRUE)
    \o <<RxClose(1), RxSet({"}"})>>

RECURSIVE format_loop(_, _, _, _, _, _)
format_loop(fmt, ms, i, last, params, front) ==
    IF i > Len(ms) THEN SubSeq(fmt, last, Len(fmt))
    ELSE LET m == ms[i]
             key == capture_text(fmt, m, 1)
             put == IF map_has(params, key) THEN godot_value_to_string(params[key])
                    ELSE IF map_has(front, key) THEN godot_value_to_string(front[key])
                    ELSE SubSeq(fmt, m.start, m.end - 1)
         IN SubSeq(fmt, last, m.start - 1) \o put
            \o format_loop(fmt, ms, i + 1, m.end, params, front)

perform_format_string(fmt, params, front) ==
    format_loop(fmt, captures_iter(format_re, 1, fmt, 1), 1, 1, params, front)

\* ------------------------------------------------------------------------
\* Node Resolver: SentenceParser::process_with_depth and parse_parameters
\* (sentence.rs 222-320)
\* ------------------------------------------------------------------------

\* the fixed maximum recursion depth: `if depth > 100`
MAX_DEPTH == 100

\* the state a call at a depth beyond the maximum leaves
max_recursion_error == Error([e |-> "io::Error", msg |-> "Max recursion"])

\* a resolver without the early return on nodes that are not Unresolved
never_returns_early(node) == FALSE

\* a resolver whose early return is for Resolved nodes alone
only_resolved(node) == node.state.k = "Resolved"

\* `if !matches!(node.state, DokeNodeState::Unresolved) { return; }`
not_unresolved(node) == node.state.k # "Unresolved"

\* trim whitespace and trailing .
statement_to_match(node) == trim_end_matches(trim(node.statement), {".", ":"})

\* the phrases that match, in the order of self.phrases, each with its raw
\* parameters
RECURSIVE collect_matches(_, _, _)
collect_matches(phrases, i, statement) ==
    IF i > Len(phrases) THEN <<>>
    ELSE LET matched(raw) ==
                 IF raw.ok THEN <<[phrase |-> phrases[i], raw |-> raw.v]>> ELSE <<>>
         IN matched(match_phrase_exact(statement, phrases[i]))
            \o collect_matches(phrases, i + 1, statement)

\* a no-match outcome that records no candidate
no_match_empty(statement) == Hypothesis(<<>>)

\* the Hypothesis of a statement no phrase matched
no_match_state(statement) ==
    Hypothesis(<<ErrorHypo(NoMatch(statement), statement)>>)

create_constituent_node(value, param_type, span) ==
    DokeNode(value, Unresolved, <<>>, EmptyMap, EmptyMap, span)

\* the depth parse_parameters hands to process_with_depth for a
\* constituent: `self.process_with_depth(&mut child, frontmatter, 0)`
constituent_depth == 0

\* the result a matched phrase builds from its parsed parameters
build_result(phrase, parsed_params, frontmatter) ==
    LET tr_key == make_tr_key(phrase)
        spec == phrase.return_spec
    IN CASE spec.k = "Type" -> new_type(spec.name, parsed_params, tr_key)
         [] spec.k = "Literal" -> new_literal(spec.v, parsed_params, tr_key)
         [] spec.k = "Format" ->
              new_literal(GString(perform_format_string(spec.fmt, parsed_params,
                                                        frontmatter)),
                          parsed_params, tr_key)

\* HashMap::extend
map_extend(m, more) ==
    [x \in (DOMAIN m) \cup (DOMAIN more) |-> IF x \in DOMAIN more THEN more[x] ELSE m[x]]

\* the constituent node of a parameter of another type, as handed to the
\* nested call: `child.parse_data.insert("sentence_type", ..)`
constituent_child(pd, raw_params, span) ==
    LET child == create_constituent_node(raw_params[pd.name], pd.param_type, span)
    IN [child EXCEPT !.parse_data =
           map_insert(@, Key_sentence_type, GString(pd.param_type))]

\* whether the parameter is resolved by a nested call
is_constituent_param(pd, raw_params) ==
    map_has(raw_params, pd.name) /\ ~is_basic_type(pd.param_type)

RECURSIVE process_with_depth(_, _, _, _)

\* one parameter of the selected phrase: a primitive is parsed (a failure
\* only leaves it out), another type becomes a constituent node, resolved
\* by a nested call.  `acc` holds parsed_params and constituent_nodes.
parse_parameter(self, pd, raw_params, frontmatter, span, acc) ==
    LET parsed(v) ==
            IF v.ok THEN [acc EXCEPT !.parsed_params = map_insert(@, pd.name, v.v)]
            ELSE acc
    IN IF ~map_has(raw_params, pd.name) THEN acc
       ELSE IF is_basic_type(pd.param_type)
       THEN parsed(parse_basic_parameter(raw_params[pd.name], pd.param_type))
       ELSE [acc EXCEPT !.constituent_nodes =
                map_insert(@, pd.name,
                    process_with_depth(self, constituent_child(pd, raw_params, span),
                                       frontmatter, constituent_depth))]

RECURSIVE parse_parameters_from(_, _, _, _, _, _, _)
parse_parameters_from(self, param_defs, i, raw_params, frontmatter, span, acc) ==
    IF i > Len(param_defs) THEN acc
    ELSE parse_parameters_from(self, param_defs, i + 1, raw_params, frontmatter, span,
            parse_parameter(self, param_defs[i], raw_params, frontmatter, span, acc))

parse_parameters(self, param_defs, raw_params, frontmatter, span) ==
    parse_parameters_from(self, param_defs, 1, raw_params, frontmatter, span,
        [parsed_params |-> EmptyMap, constituent_nodes |-> EmptyMap])

\* a selection that gives the entry up when one of its constituents did
\* not resolve
resolved_node_all_or_nothing(node, phrase, pp, frontmatter) ==
    IF \A n \in DOMAIN pp.constituent_nodes :
           pp.constituent_nodes[n].state.k = "Resolved"
    THEN [node EXCEPT
             !.constituents = map_extend(@, pp.constituent_nodes),
             !.state = Resolved(build_result(phrase, pp.parsed_params, frontmatter))]
    ELSE node

\* the node a matched phrase leaves: constituents attached, state Resolved
resolved_node(node, phrase, pp, frontmatter) ==
    [node EXCEPT
        !.constituents = map_extend(@, pp.constituent_nodes),
        !.state = Resolved(build_result(phrase, pp.parsed_params, frontmatter))]

\* process_with_depth: the node as the call leaves it (for a grammar set
\* and a statement on which the recursion ends; see CallStep below for the
\* call-by-call account)
process_with_depth(self, node, frontmatter, depth) ==
    LET matched(statement, matches) ==
            LET selected(best) ==
                    resolved_node(node, best.phrase,
                        parse_parameters(self, best.phrase.parameters, best.raw,
                                         frontmatter, node.span),
                        frontmatter)
            IN IF matches = <<>>
               THEN [node EXCEPT !.state = no_match_state(statement)]
               ELSE selected(matches[best_match(matches)])
        match(statement) ==
            matched(statement, collect_matches(self.phrases, 1, statement))
    IN IF depth > MAX_DEPTH THEN [node EXCEPT !.state = max_recursion_error]
       ELSE IF not_unresolved(node) THEN node
       ELSE match(statement_to_match(node))

\* impl DokeParser for SentenceParser
SentenceParser_process(self, node, frontmatter) ==
    process_with_depth(self, node, frontmatter, 0)

\* ------------------------------------------------------------------------
\* Rule Table and dispatch: TypedSentencesParser (typed_sentences.rs)
\* ------------------------------------------------------------------------

\* ChildSpec
Simple(items) == [c |-> "Simple", items |-> items]
Structured(hash_map) == [c |-> "Structured", hash_map |-> hash_map]

seq_contains(s, x) == \E i \in 1..Len(s) : s[i] = x

\* ChildSpec::allowed
allowed(spec, child_abstract_type) ==
    IF spec.c = "Simple" THEN seq_contains(spec.items, child_abstract_type)
    ELSE \E f \in DOMAIN spec.hash_map :
            seq_contains(spec.hash_map[f], child_abstract_type)

\* TypeRule
TypeRule(target_type, priority, children, sentence_parser) ==
    [target_type |-> target_type, priority |-> priority, children |-> children,
     sentence_parser |-> sentence_parser]

\* the child specification a loaded rule carries: from_config builds every
\* TypeRule with `children: ChildSpec::Simple(vec![])`
loaded_children(rule_config) == Simple(<<>>)

\* slice::sort_by(|a, b| b.priority.cmp(&a.priority)): a stable sort,
\* highest priority first
RECURSIVE insert_by_priority(_, _)
insert_by_priority(sorted, rule) ==
    IF sorted = <<>> THEN <<rule>>
    ELSE IF Head(sorted).priority >= rule.priority
         THEN <<Head(sorted)>> \o insert_by_priority(Tail(sorted), rule)
         ELSE <<rule>> \o sorted

\* a load that leaves the rules in configuration order
config_order(rules) == rules

RECURSIVE sort_by_priority(_)
sort_by_priority(rules) ==
    IF rules = <<>> THEN <<>>
    ELSE insert_by_priority(sort_by_priority(SubSeq(rules, 1, Len(rules) - 1)),
                            rules[Len(rules)])

\* TypedSentencesParser::from_config.  A rule of the configuration is
\* [for, parser, priority, children], `parser` standing for the YAML text
\* of the files its pattern names.
from_config(config) ==
    LET load(parsers) ==
            IF \E i \in 1..Len(config) : ~parsers[i].ok
            THEN Err([e |-> "InvalidRule"])
            ELSE Ok([rules |-> sort_by_priority(
                        [i \in 1..Len(config) |->
                            TypeRule(config[i].for, config[i].priority,
                                     loaded_children(config[i]), parsers[i].v)])])
    IN load([i \in 1..Len(config) |-> from_yaml(config[i].parser)])

\* rule_matches_parent
rule_matches_parent(rule, parent_abstract_type) ==
    IF parent_abstract_type = None THEN TRUE
    ELSE allowed(rule.children, parent_abstract_type[1])

\* try_process_with_rule: the node as the rule leaves it, and whether the
\* rule resolved it
try_process_with_rule(node, frontmatter, rule) ==
    LET was_unresolved == node.state.k = "Unresolved"
        outcome_of(after) ==
            IF after.state.k = "Resolved"
            THEN [node |-> [after EXCEPT !.parse_data =
                               map_insert(@, Key_abstract_type, GString(rule.target_type))],
                  resolved |-> TRUE]
            ELSE \* If we didn't resolve it, restore the unresolved state
                 [node |-> IF was_unresolved THEN [after EXCEPT !.state = Unresolved]
                           ELSE after,
                  resolved |-> FALSE]
    IN outcome_of(SentenceParser_process(rule.sentence_parser, node, frontmatter))

\* `for rule in candidate_rules { if try_process_with_rule(..) { break; } }`
\* from the i-th candidate on.  The log lists, in order, the rules run on
\* the node: [path, rule, pass, resolved].
RECURSIVE try_rules(_, _, _, _, _, _)
try_rules(node, frontmatter, candidates, i, path, pass) ==
    IF i > Len(candidates) THEN [node |-> node, log |-> <<>>]
    ELSE LET entry(r) == [path |-> path, rule |-> candidates[i], pass |-> pass,
                          resolved |-> r.resolved]
             later(e, more) == [node |-> more.node, log |-> <<e>> \o more.log]
             tried(r) ==
                 IF r.resolved THEN [node |-> r.node, log |-> <<entry(r)>>]
                 ELSE later(entry(r),
                            try_rules(r.node, frontmatter, candidates, i + 1, path, pass))
         IN tried(try_process_with_rule(node, frontmatter, candidates[i]))

\* Iterator::filter
RECURSIVE filter_rules(_, _)
filter_rules(rules, parent_abstract_type) ==
    IF rules = <<>> THEN <<>>
    ELSE (IF rule_matches_parent(Head(rules), parent_abstract_type)
          THEN <<Head(rules)>> ELSE <<>>)
         \o filter_rules(Tail(rules), parent_abstract_type)

\* a dispatch that stops after the scoped pass
dispatch_scoped_only(self, node, frontmatter, parent_abstract_type, path) ==
    try_rules(node, frontmatter,
              sort_by_priority(filter_rules(self.rules, parent_abstract_type)),
              1, path, "scoped")

\* the dispatch of process_node_recursive on an Unresolved node: the scoped
\* pass, then the pass over all rules if the node is still Unresolved
dispatch(self, node, frontmatter, parent_abstract_type, path) ==
    LET both(scoped, again) == [node |-> again.node, log |-> scoped.log \o again.log]
        fallback(scoped) ==
            IF scoped.node.state.k = "Unresolved"
            THEN both(scoped,
                      try_rules(scoped.node, frontmatter, sort_by_priority(self.rules),
                                1, path, "all"))
            ELSE scoped
    IN fallback(try_rules(node, frontmatter,
                    sort_by_priority(filter_rules(self.rules, parent_abstract_type)),
                    1, path, "scoped"))


\* a context that forgets the type of the node
no_abstract_type(node) == None

\* the parent-type context a node hands to its children and constituents
current_abstract_type(node) ==
    IF node.state.k = "Resolved" /\ map_has(node.parse_data, Key_abstract_type)
       /\ node.parse_data[Key_abstract_type].t = "String"
    THEN Some(node.parse_data[Key_abstract_type].s)
    ELSE None

\* a step of the path from a root to a node: its i-th child, or the
\* constituent it holds under a name
ChildStep(i) == [kind |-> "child", i |-> i, name |-> <<>>]
ConstituentStep(name) == [kind |-> "constituent", i |-> 0, name |-> name]

\* the keys of a map in a fixed order (the order a HashMap iterates in only
\* orders the log entries of different nodes)
RECURSIVE keys_seq(_)
keys_seq(ks) ==
    IF ks = {} THEN <<>>
    ELSE LET k == CHOOSE x \in ks : TRUE IN <<k>> \o keys_seq(ks \ {k})

\* the log of a dispatch, each entry with the parent-type context
\* process_node_recursive was called with
with_context(dispatched, parent_abstract_type) ==
    [node |-> dispatched.node,
     log |-> [i \in 1..Len(dispatched.log) |->
                 [path |-> dispatched.log[i].path, rule |-> dispatched.log[i].rule,
                  pass |-> dispatched.log[i].pass,
                  resolved |-> dispatched.log[i].resolved,
                  parent |-> parent_abstract_type]]]

RECURSIVE process_node_recursive(_, _, _, _, _, _)
RECURSIVE recurse_children(_, _, _, _, _, _, _)
RECURSIVE recurse_constituents(_, _, _, _, _, _, _)

\* `for child in &mut node.children { .. }` from the i-th child on
recurse_children(self, node, frontmatter, ctx, depth, path, i) ==
    IF i > Len(node.children) THEN [node |-> node, log |-> <<>>]
    ELSE LET joined(c, more) == [node |-> more.node, log |-> c.log \o more.log]
             rest(c) ==
                 joined(c, recurse_children(self, [node EXCEPT !.children[i] = c.node],
                                            frontmatter, ctx, depth, path, i + 1))
         IN rest(process_node_recursive(self, node.children[i], frontmatter, ctx,
                                        depth + 1, Append(path, ChildStep(i))))

\* `for constituent in node.constituents.values_mut() { .. }`
recurse_constituents(self, node, frontmatter, ctx, depth, path, names) ==
    IF names = <<>> THEN [node |-> node, log |-> <<>>]
    ELSE LET joined(c, more) == [node |-> more.node, log |-> c.log \o more.log]
             rest(c) ==
                 joined(c, recurse_constituents(self,
                               [node EXCEPT !.constituents[Head(names)] = c.node],
                               frontmatter, ctx, depth, path, Tail(names)))
         IN rest(process_node_recursive(self, node.constituents[Head(names)],
                                        frontmatter, ctx, depth + 1,
                                        Append(path, ConstituentStep(Head(names)))))

\* process_node_recursive: the node as the call leaves it, and the log of
\* the rules run on it and on its descendants: [path, rule, pass, resolved,
\* parent]
process_node_recursive(self, node, frontmatter, parent_abstract_type, depth, path) ==
    LET joined(first, second) == [node |-> second.node, log |-> first.log \o second.log]
        constituents_of(kids, ctx) ==
            joined(kids,
                   recurse_constituents(self, kids.node, frontmatter, ctx, depth, path,
                                        keys_seq(DOMAIN kids.node.constituents)))
        children_of(own, ctx) ==
            joined(own,
                   constituents_of(
                       recurse_children(self, own.node, frontmatter, ctx, depth, path, 1),
                       ctx))
        descend(own) == children_of(own, current_abstract_type(own.node))
    IN IF depth > MAX_DEPTH THEN [node |-> node, log |-> <<>>]
       ELSE IF node.state.k = "Unresolved"
       THEN descend(with_context(
                        dispatch(self, node, frontmatter, parent_abstract_type, path),
                        parent_abstract_type))
       ELSE descend([node |-> node, log |-> <<>>])

\* impl DokeParser for TypedSentencesParser
TypedSentencesParser_process(self, node, frontmatter) ==
    process_node_recursive(self, node, frontmatter, None, 0, <<>>)

\* ------------------------------------------------------------------------
\* Validation: DokeValidate (semantic.rs)
\* ------------------------------------------------------------------------

\* DokeValidationError
\* a NodeError that carries the message alone
NodeError_message_only(statement, msg) ==
    [e |-> "NodeError", statement |-> <<>>, msg |-> msg]

NodeError(statement, msg) == [e |-> "NodeError", statement |-> statement, msg |-> msg]
HypothesisPromotionFailed(source, span) ==
    [e |-> "HypothesisPromotionFailed", source |-> source, span |-> span]
UnresolvedNode(statement) == [e |-> "UnresolvedNode", statement |-> statement]
MultipleErrors(errors) == [e |-> "MultipleErrors", errors |-> errors]
ChildUsageFailed(source) == [e |-> "ChildUsageFailed", source |-> source]
DynamicError(source) == [e |-> "DynamicError", source |-> source]

\* Iterator::max_by over the confidences: of several greatest elements the
\* last one is returned; 0 stands for None (no candidate)
best_index(hypotheses) ==
    IF hypotheses = <<>> THEN 0
    ELSE CHOOSE i \in 1..Len(hypotheses) :
            /\ \A j \in 1..Len(hypotheses) :
                  confidence(hypotheses[j]) <= confidence(hypotheses[i])
            /\ \A j \in (i + 1)..Len(hypotheses) :
                  confidence(hypotheses[j]) < confidence(hypotheses[i])

\* Vec::remove
remove(v, i) == SubSeq(v, 1, i - 1) \o SubSeq(v, i + 1, Len(v))

\* the candidates a promotion attempt leaves in the node:
\* `let hypo = hypotheses.remove(best_index);` comes before `hypo.promote()`
hypotheses_after_attempt(hypotheses, i) == remove(hypotheses, i)

\* `for child in &child_values { resolved.use_child(child.clone())..? }`:
\* the result as the loop leaves it, and the error that ended it, if any
RECURSIVE merge_children(_, _, _)
merge_children(resolved, child_values, i) ==
    IF i > Len(child_values) THEN [resolved |-> resolved, res |-> Ok(TRUE)]
    ELSE LET used(r) ==
                 IF r.ok THEN merge_children(r.v, child_values, i + 1)
                 ELSE [resolved |-> resolved, res |-> Err(ChildUsageFailed(r.e))]
         IN used(use_child(resolved, child_values[i]))

\* `for (name, value) in &constituent_values { resolved.use_constituent(..)?; }`
RECURSIVE merge_constituents(_, _, _)
merge_constituents(resolved, constituent_values, names) ==
    IF names = <<>> THEN [resolved |-> resolved, res |-> Ok(TRUE)]
    ELSE LET used(r) ==
                 IF r.ok THEN merge_constituents(r.v, constituent_values, Tail(names))
                 ELSE [resolved |-> resolved, res |-> Err(DynamicError(r.e))]
         IN used(use_constituent(resolved, Head(names),
                                 constituent_values[Head(names)]))

\* both merges, children first
merge_values(resolved, child_values, constituent_values) ==
    LET then(kids) ==
            IF ~kids.res.ok THEN kids
            ELSE merge_constituents(kids.resolved, constituent_values,
                                    keys_seq(DOMAIN constituent_values))
    IN then(merge_children(resolved, child_values, 1))

\* `match &mut node.state { .. }` of process_node, with the values of the
\* node's children and constituents: the node as it is left, and the result
validate_state(node, child_values, constituent_values) ==
    LET promoted_to(left, promoted) ==
            LET merged(m) ==
                    IF ~m.res.ok THEN [node |-> left, res |-> m.res]
                    ELSE [node |-> [node EXCEPT !.state = Resolved(m.resolved)],
                          res |-> Ok(to_godot(m.resolved))]
            IN IF ~promoted.ok
               THEN [node |-> left,
                     res |-> Err(HypothesisPromotionFailed(promoted.e, node.span))]
               ELSE merged(merge_values(promoted.v, child_values, constituent_values))
        best(hypotheses, bi) ==
            IF bi = 0
            THEN [node |-> node, res |-> Err(UnresolvedNode(node.statement))]
            ELSE promoted_to(
                     [node EXCEPT !.state =
                         Hypothesis(hypotheses_after_attempt(hypotheses, bi))],
                     promote(hypotheses[bi]))
        in_place(m) ==
            [node |-> [node EXCEPT !.state = Resolved(m.resolved)],
             res |-> IF ~m.res.ok THEN m.res ELSE Ok(to_godot(m.resolved))]
    IN CASE node.state.k = "Unresolved" ->
              [node |-> node, res |-> Err(UnresolvedNode(node.statement))]
         [] node.state.k = "Hypothesis" ->
              best(node.state.hypos, best_index(node.state.hypos))
         [] node.state.k = "Resolved" ->
              in_place(merge_values(node.state.result, child_values, constituent_values))
         [] node.state.k = "Error" ->
              [node |-> node,
               res |-> Err(NodeError(node.statement, node.state.error.msg))]

\* the names of a node's constituents in the order `ord` lists them: the
\* order in which `for (name, constituent) in &mut node.constituents`
\* iterates the HashMap, which the code does not fix
RECURSIVE listed_names(_, _)
listed_names(ord, keys) ==
    IF ord = <<>> THEN <<>>
    ELSE (IF Head(ord) \in keys THEN <<Head(ord)>> ELSE <<>>)
         \o listed_names(Tail(ord), keys)

names_in_order(ord, keys) ==
    listed_names(ord, keys)
    \o keys_seq(keys \ {ord[i] : i \in 1..Len(ord)})

RECURSIVE process_node(_, _, _)
RECURSIVE validate_children(_, _, _, _)
RECURSIVE validate_constituents(_, _, _, _)

\* the loop over node.children from the i-th child on: the node, the values
\* collected, the error that ended the loop (if any), and the nodes whose
\* state was examined, in order
validate_children(node, ord, path, i) ==
    IF i > Len(node.children)
    THEN [node |-> node, res |-> Ok(<<>>), visited |-> <<>>]
    ELSE LET joined(c, more) ==
                 [node |-> more.node,
                  res |-> IF more.res.ok THEN Ok(<<c.res.v>> \o more.res.v)
                          ELSE more.res,
                  visited |-> c.visited \o more.visited]
             rest(c, after) ==
                 IF ~c.res.ok
                 THEN [node |-> after, res |-> c.res, visited |-> c.visited]
                 ELSE joined(c, validate_children(after, ord, path, i + 1))
             put(c) == rest(c, [node EXCEPT !.children[i] = c.node])
         IN put(process_node(node.children[i], ord, Append(path, ChildStep(i))))

\* the loop over node.constituents, over the names still to come
validate_constituents(node, ord, path, names) ==
    IF names = <<>>
    THEN [node |-> node, res |-> Ok(EmptyMap), visited |-> <<>>]
    ELSE LET joined(c, more) ==
                 [node |-> more.node,
                  res |-> IF more.res.ok
                          THEN Ok(map_insert(more.res.v, Head(names), c.res.v))
                          ELSE more.res,
                  visited |-> c.visited \o more.visited]
             rest(c, after) ==
                 IF ~c.res.ok
                 THEN [node |-> after, res |-> c.res, visited |-> c.visited]
                 ELSE joined(c, validate_constituents(after, ord, path, Tail(names)))
             put(c) == rest(c, [node EXCEPT !.constituents[Head(names)] = c.node])
         IN put(process_node(node.constituents[Head(names)], ord,
                             Append(path, ConstituentStep(Head(names)))))

\* a process_node that goes on to the constituents and to the node's own
\* state after a child or a constituent has failed
process_node_unconditional(node, ord, path) ==
    LET values(r, empty) == IF r.ok THEN r.v ELSE empty
        own_state(kids, cons, own) ==
            [node |-> own.node,
             res |-> IF ~kids.res.ok THEN kids.res
                     ELSE IF ~cons.res.ok THEN cons.res ELSE own.res,
             visited |-> kids.visited \o cons.visited \o <<path>>]
        after_constituents(kids, cons) ==
            own_state(kids, cons,
                      validate_state(cons.node, values(kids.res, <<>>),
                                     values(cons.res, EmptyMap)))
        after_children(kids) ==
            after_constituents(kids,
                validate_constituents(kids.node, ord, path,
                    names_in_order(ord, DOMAIN kids.node.constituents)))
    IN after_children(validate_children(node, ord, path, 1))

\* DokeValidate::process_node
process_node(node, ord, path) ==
    LET own_state(kids, cons, own) ==
            [node |-> own.node, res |-> own.res,
             visited |-> kids.visited \o cons.visited \o <<path>>]
        after_constituents(kids, cons) ==
            IF ~cons.res.ok
            THEN [node |-> cons.node, res |-> cons.res,
                  visited |-> kids.visited \o cons.visited]
            ELSE own_state(kids, cons, validate_state(cons.node, kids.res.v, cons.res.v))
        after_children(kids) ==
            IF ~kids.res.ok THEN kids
            ELSE after_constituents(kids,
                     validate_constituents(kids.node, ord, path,
                         names_in_order(ord, DOMAIN kids.node.constituents)))
    IN after_children(validate_children(node, ord, path, 1))

\* `root_nodes.iter_mut().map(|n| validator.process_node(n, frontmatter))`
validate_roots(root_nodes, ord) ==
    [i \in 1..Len(root_nodes) |-> process_node(root_nodes[i], ord, <<ChildStep(i)>>)]

\* `Ok(v) => ok_values.push(v)` over the results from the i-th on
RECURSIVE ok_values_from(_, _)
ok_values_from(results, i) ==
    IF i > Len(results) THEN <<>>
    ELSE (IF results[i].res.ok THEN <<results[i].res.v>> ELSE <<>>)
         \o ok_values_from(results, i + 1)

\* `Err(e) => validator.errors.push(e)` over the results from the i-th on
RECURSIVE errors_from(_, _)
errors_from(results, i) ==
    IF i > Len(results) THEN <<>>
    ELSE (IF results[i].res.ok THEN <<>> ELSE <<results[i].res.e>>)
         \o errors_from(results, i + 1)

\* an aggregation that reports the first error alone
aggregate_first_error(ok_values, errors) ==
    IF errors = <<>> THEN Ok(ok_values) ELSE Err(errors[1])

\* the aggregation of validate_tree over the per-root results
aggregate(ok_values, errors) ==
    IF errors = <<>> THEN Ok(ok_values)
    ELSE IF Len(errors) = 1 THEN Err(errors[1])
    ELSE Err(MultipleErrors(errors))

\* DokeValidate::validate_tree: the roots as validation leaves them, the
\* aggregated result, and the nodes examined
validate_tree(root_nodes, ord) ==
    LET collected(results) ==
            [roots |-> [i \in 1..Len(results) |-> results[i].node],
             res |-> aggregate(ok_values_from(results, 1), errors_from(results, 1)),
             results |-> [i \in 1..Len(results) |-> results[i].res],
             visited |-> [i \in 1..Len(results) |-> results[i].visited]]
    IN collected(validate_roots(root_nodes, ord))

\* ------------------------------------------------------------------------
\* process_with_depth, call by call
\* ------------------------------------------------------------------------

\* the activation record of a call of process_with_depth that has selected
\* a phrase and is inside parse_parameters, at the i-th parameter
Frame(node, phrase, raw, depth) ==
    [node |-> node, phrase |-> phrase, raw |-> raw, depth |-> depth, i |-> 1,
     acc |-> [parsed_params |-> EmptyMap, constituent_nodes |-> EmptyMap]]

\* a call of process_with_depth up to parse_parameters: either it returns
\* at once (depth beyond the maximum, node not Unresolved, no phrase
\* matches) or it has a phrase selected and its parameters to go through
enter(self, node, frontmatter, depth) ==
    LET matched(statement, matches) ==
            LET selected(best) ==
                    [done |-> FALSE,
                     frame |-> Frame(node, best.phrase, best.raw, depth)]
            IN IF matches = <<>>
               THEN [done |-> TRUE,
                     node |-> [node EXCEPT !.state = no_match_state(statement)]]
               ELSE selected(matches[best_match(matches)])
        match(statement) ==
            matched(statement, collect_matches(self.phrases, 1, statement))
    IN IF depth > MAX_DEPTH
       THEN [done |-> TRUE, node |-> [node EXCEPT !.state = max_recursion_error]]
       ELSE IF not_unresolved(node) THEN [done |-> TRUE, node |-> node]
       ELSE match(statement_to_match(node))

\* the parameter a frame is at
frame_param(frame) == frame.phrase.parameters[frame.i]
frame_finished(frame) == frame.i > Len(frame.phrase.parameters)
frame_calls(frame) ==
    ~frame_finished(frame) /\ is_constituent_param(frame_param(frame), frame.raw)

\* the frame after the nested call for its current parameter has returned
\* the resolved constituent
frame_returned(frame, constituent) ==
    [frame EXCEPT !.acc.constituent_nodes =
                      map_insert(@, frame_param(frame).name, constituent),
                  !.i = @ + 1]

\* the node a finished frame returns
frame_result(frame, frontmatter) ==
    resolved_node(frame.node, frame.phrase, frame.acc, frontmatter)

\* ------------------------------------------------------------------------
\* Grammar sets, rule tables and documents the model runs on
\* ------------------------------------------------------------------------

\* D: ["d {n: int}"]   R: ["r {e: D}"]   C: ["c {e: D} {f: D}"]
Yaml1 ==
    << [name |-> <<"D">>,
        items |-> <<YamlString(<<"d", " ", "{", "n", ":", " ", "i", "n", "t", "}">>)>>],
       [name |-> <<"R">>,
        items |-> <<YamlString(<<"r", " ", "{", "e", ":", " ", "D", "}">>)>>],
       [name |-> <<"C">>,
        items |-> <<YamlString(<<"c", " ", "{", "e", ":", " ", "D", "}", " ",
                                 "{", "f", ":", " ", "D", "}">>)>>] >>

\* I: ["d {s}"]
Yaml2 ==
    << [name |-> <<"I">>, items |-> <<YamlString(<<"d", " ", "{", "s", "}">>)>>] >>

\* A: ["{a: A}"], a phrase that embeds its own type
YamlLoop ==
    << [name |-> <<"A">>, items |-> <<YamlString(<<"{", "a", ":", " ", "A", "}">>)>>] >>

\* S: ["d e {a}", "d {a: string}"]: the first phrase has the longer
\* literal text, the second the longer placeholder
Yaml3 ==
    << [name |-> <<"S">>,
        items |-> <<YamlString(<<"d", " ", "e", " ", "{", "a", "}">>),
                    YamlString(<<"d", " ", "{", "a", ":", " ", "s", "t", "r", "i", "n",
                                 "g", "}">>)>>] >>

\* W: ["r {e: I}"]: the type of the parameter has its phrases in Yaml2
Yaml4 ==
    << [name |-> <<"W">>,
        items |-> <<YamlString(<<"r", " ", "{", "e", ":", " ", "I", "}">>)>>] >>

\* O: ["d {n:?}"]: a parameter marked optional
Yaml5 ==
    << [name |-> <<"O">>,
        items |-> <<YamlString(<<"d", " ", "{", "n", ":", "?", "}">>)>>] >>

\* X: [{"fire": 1}]   A: ["t a {k: X}", "t {s}"]
\* F: [{"l {n: int}": 5}, {"m {k: X}": l"x"}]
\* X is a section of literal entries; the first phrase of A has a parameter
\* of that type and more literal text than the second; the phrases of F
\* return a literal
Yaml6 ==
    << [name |-> <<"X">>,
        items |-> <<YamlHash(<<[key |-> <<"f", "i", "r", "e">>, value |-> YamlInteger(1)]>>)>>],
       [name |-> <<"A">>,
        items |-> <<YamlString(<<"t", " ", "a", " ", "{", "k", ":", " ", "X", "}">>),
                    YamlString(<<"t", " ", "{", "s", "}">>)>>],
       [name |-> <<"F">>,
        items |-> <<YamlHash(<<[key |-> <<"l", " ", "{", "n", ":", " ", "i", "n", "t", "}">>,
                                value |-> YamlInteger(5)]>>),
                    YamlHash(<<[key |-> <<"m", " ", "{", "k", ":", " ", "X", "}">>,
                                value |-> YamlString(<<"l", "\"", "x", "\"">>)]>>)>>] >>

\* B: ["d {n", "e {n: }"]: a template with an unbalanced brace and one with
\* an empty type
YamlMalformed ==
    << [name |-> <<"B">>,
        items |-> <<YamlString(<<"d", " ", "{", "n">>),
                    YamlString(<<"e", " ", "{", "n", ":", " ", "}">>)>>] >>

\* N: ["d {n: int}"]   F: ["f {x: float}"]   B: ["b {v: bool}"]
YamlPrimitives ==
    << [name |-> <<"N">>,
        items |-> <<YamlString(<<"d", " ", "{", "n", ":", " ", "i", "n", "t", "}">>)>>],
       [name |-> <<"F">>,
        items |-> <<YamlString(<<"f", " ", "{", "x", ":", " ", "f", "l", "o", "a", "t",
                                 "}">>)>>],
       [name |-> <<"B">>,
        items |-> <<YamlString(<<"b", " ", "{", "v", ":", " ", "b", "o", "o", "l",
                                 "}">>)>>] >>

GrammarNames == {"Grammar1", "Grammar2"}
DepthGrammarNames == {"Grammar1", "GrammarLoop"}
EntryGrammarNames == {"Grammar1", "Grammar3", "Grammar5"}
ReturnGrammarNames == {"Grammar6", "GrammarMalformed"}

\* the YAML text of a grammar set
Yaml(g) ==
    CASE g = "Grammar1" -> Yaml1
      [] g = "Grammar2" -> Yaml2
      [] g = "GrammarLoop" -> YamlLoop
      [] g = "Grammar3" -> Yaml3
      [] g = "Grammar4" -> Yaml4
      [] g = "Grammar5" -> Yaml5
      [] g = "GrammarPrimitives" -> YamlPrimitives
      [] g = "Grammar6" -> Yaml6
      [] g = "GrammarMalformed" -> YamlMalformed

\* the SentenceParser loaded from each text
Grammars ==
    [g \in GrammarNames \cup DepthGrammarNames \cup EntryGrammarNames
              \cup ReturnGrammarNames \cup {"GrammarPrimitives"} |->
        from_yaml(Yaml(g)).v]
Grammar(g) == Grammars[g]

\* rules: [{for: E, parser: Yaml1, priority: 1, children: [I]},
\*         {for: I, parser: Yaml2, priority: 2, children: []}]
ConfigA ==
    << [for |-> <<"E">>, parser |-> Yaml1, priority |-> 1,
        children |-> Simple(<< <<"I">> >>)],
       [for |-> <<"I">>, parser |-> Yaml2, priority |-> 2,
        children |-> Simple(<<>>)] >>

\* the same two rules at one priority, with structured child specifications
ConfigB ==
    << [for |-> <<"E">>, parser |-> Yaml1, priority |-> 1,
        children |-> Structured([x \in {<<"f">>} |-> << <<"I">>, <<"E">> >>])],
       [for |-> <<"I">>, parser |-> Yaml2, priority |-> 1,
        children |-> Structured([x \in {<<"f">>} |-> << <<"I">> >>])] >>

\* a rule whose phrase has a parameter of the type of the other rule
ConfigC ==
    << [for |-> <<"W">>, parser |-> Yaml4, priority |-> 1, children |-> Simple(<<>>)],
       [for |-> <<"I">>, parser |-> Yaml2, priority |-> 1, children |-> Simple(<<>>)] >>

TableNames == {"TableA", "TableB"}
EntryTableNames == {"TableB", "TableC"}
Config(t) ==
    CASE t = "TableA" -> ConfigA
      [] t = "TableB" -> ConfigB
      [] t = "TableC" -> ConfigC

\* the TypedSentencesParser loaded from each configuration
Tables == [t \in TableNames \cup EntryTableNames |-> from_config(Config(t)).v]
Table(t) == Tables[t]

Frontmatter == EmptyMap

Position(start, end) == [start |-> start, end |-> end]

\* a node as the document parser hands it over
Node(statement, children, span) ==
    DokeNode(statement, Unresolved, children, EmptyMap, EmptyMap, span)
Leaf(statement, span) == Node(statement, <<>>, span)

\* a node another parser of the pipeline has left in the given state
Staged(statement, state, children, span) ==
    DokeNode(statement, state, children, EmptyMap, EmptyMap, span)

S_d7 == <<"d", " ", "7">>
S_dx == <<"d", " ", "x">>
S_rd7 == <<"r", " ", "d", " ", "7", ".">>
S_zz == <<"z", "z">>
S_c == <<"c", " ", "z", " ", "r", " ", "d", " ", "7">>
S_z == <<"z">>

\* a root with one child, both "d 7"
DocTree == << Node(S_d7, << Leaf(S_d7, Position(4, 7)) >>, Position(0, 3)) >>

\* "c z r d 7": two constituents, the first matches no phrase
DocConstituents == << Leaf(S_c, Position(0, 9)) >>

\* two roots
DocTwo == << Leaf(S_rd7, Position(0, 6)), Leaf(S_dx, Position(7, 10)) >>

CustomError == [e |-> "Custom"]

\* three roots with candidates of another parser: the best one promotes to
\* an array and takes the child; the best one fails to promote; the only
\* one promotes to an integer, which takes no child
DocHypotheses ==
    << Staged(S_zz,
              Hypothesis(<< OtherHypo(1, Ok(ValueResult(GArray(<<>>)))),
                            ErrorHypo(NoMatch(S_zz), S_zz),
                            OtherHypo(1, Ok(ValueResult(GDict(EmptyMap)))) >>),
              << Staged(S_z, Resolved(ValueResult(GInt(3))), <<>>, Position(3, 4)) >>,
              Position(0, 2)),
       Staged(S_zz,
              Hypothesis(<< ErrorHypo(NoMatch(S_zz), S_zz),
                            OtherHypo(1, Err(CustomError)) >>),
              <<>>, Position(5, 7)),
       Staged(S_zz,
              Hypothesis(<< OtherHypo(2, Ok(ValueResult(GInt(5)))) >>),
              << Staged(S_z, Resolved(ValueResult(GInt(3))), <<>>, Position(11, 12)) >>,
              Position(8, 10)) >>

Documents == {DocTree, DocConstituents, DocTwo, DocHypotheses}

S_d3 == <<"d", " ", "3">>
S_de7 == <<"d", " ", "e", " ", "7">>
S_rrd7 == <<"r", " ", "r", " ", "d", " ", "7">>
S_dneg == <<"d", " ", "-", "0", "x", "1">>
S_d == <<"d">>

\* "r d 7." with two children, the first with a child of its own
DocFamily ==
    << Node(S_rd7,
            << Node(S_d7, << Leaf(S_d3, Position(12, 15)) >>, Position(8, 11)),
               Leaf(S_d3, Position(16, 19)) >>,
            Position(0, 6)) >>

\* the statements of the one-statement documents
EntryStatements == {S_d7, S_de7, S_rrd7, S_dneg, S_d}

EntryDocuments ==
    {DocFamily} \cup {<<Leaf(s, Position(0, Len(s)))>> : s \in EntryStatements}

S_taf == <<"t", " ", "a", " ", "f", "i", "r", "e">>
S_tazz == <<"t", " ", "a", " ", "z", "z">>
S_l3 == <<"l", " ", "3">>
S_mfire == <<"m", " ", "f", "i", "r", "e">>
S_fire == <<"f", "i", "r", "e">>
S_zzdots == <<"z", "z", ".", ".">>
S_tafdots == <<"t", " ", "a", " ", "f", "i", "r", "e", ".", ".">>
S_dn == <<"d", " ", "{", "n">>
S_e7 == <<"e", " ", "7">>

\* "l 3", which returns a literal, with the child "fire"
DocLiteral == << Node(S_l3, << Leaf(S_fire, Position(4, 8)) >>, Position(0, 3)) >>

\* "t a fire", which returns a type, with the child "l 3"
DocType == << Node(S_taf, << Leaf(S_l3, Position(9, 12)) >>, Position(0, 8)) >>

\* three roots other parsers of the pipeline have left in a state (in
\* Error, with a validated child; Resolved to an integer, with a validated
\* child; with a no-match candidate) and one no parser has run on
DocStaged ==
    << Staged(S_fire, max_recursion_error,
              << Staged(S_z, Resolved(ValueResult(GInt(4))), <<>>, Position(5, 6)) >>,
              Position(0, 4)),
       Staged(S_l3, Resolved(ValueResult(GInt(3))),
              << Staged(S_z, Resolved(ValueResult(GInt(4))), <<>>, Position(11, 12)) >>,
              Position(7, 10)),
       Staged(S_fire, Hypothesis(<< ErrorHypo(NoMatch(S_fire), S_fire) >>), <<>>,
              Position(13, 17)),
       Leaf(S_zzdots, Position(18, 22)) >>

ReturnStatements ==
    {S_taf, S_tazz, S_l3, S_mfire, S_fire, S_zzdots, S_tafdots, S_dn, S_e7}

ReturnDocuments ==
    {DocLiteral, DocType, DocStaged}
    \cup {<<Leaf(s, Position(0, Len(s)))>> : s \in ReturnStatements}

\* the statements process_with_depth is followed call by call on
DepthStatements == {S_z, S_zz, S_rd7, S_c}

\* the orders in which a HashMap of constituents may be iterated
Orders == { << <<"e">>, <<"f">> >>, << <<"f">>, <<"e">> >> }

\* ------------------------------------------------------------------------
\* Paths into the document
\* ------------------------------------------------------------------------

RECURSIVE node_paths(_, _)
\* the paths of a node and of all its descendants
node_paths(node, path) ==
    {path}
    \cup UNION {node_paths(node.children[i], Append(path, ChildStep(i))) :
                   i \in 1..Len(node.children)}
    \cup UNION {node_paths(node.constituents[n], Append(path, ConstituentStep(n))) :
                   n \in DOMAIN node.constituents}

Paths(root_nodes) ==
    UNION {node_paths(root_nodes[i], <<ChildStep(i)>>) : i \in 1..Len(root_nodes)}

step_into(node, step) ==
    IF step.kind = "child" THEN node.children[step.i] ELSE node.constituents[step.name]

RECURSIVE node_from(_, _)
node_from(node, path) ==
    IF path = <<>> THEN node ELSE node_from(step_into(node, Head(path)), Tail(path))

\* the node of the document at a path
node_at(root_nodes, path) == node_from(root_nodes[Head(path).i], Tail(path))

RECURSIVE node_with(_, _, _)
\* the node with the descendant at `path` replaced
node_with(node, path, new) ==
    IF path = <<>> THEN new
    ELSE IF Head(path).kind = "child"
    THEN [node EXCEPT !.children[Head(path).i] = node_with(@, Tail(path), new)]
    ELSE [node EXCEPT !.constituents[Head(path).name] = node_with(@, Tail(path), new)]

with_node(root_nodes, path, new) ==
    [root_nodes EXCEPT ![Head(path).i] = node_with(@, Tail(path), new)]

\* the roots and their children: the nodes a pipeline hands to a parser
Targets(root_nodes) ==
    {<<ChildStep(i)>> : i \in 1..Len(root_nodes)}
    \cup UNION {{<<ChildStep(i), ChildStep(j)>> : j \in 1..Len(root_nodes[i].children)} :
                   i \in 1..Len(root_nodes)}

\* ------------------------------------------------------------------------
\* The pipeline as a state machine
\* ------------------------------------------------------------------------

VARIABLES
    roots,        \* the document: the root nodes
    outcome,      \* the result of the last validate_tree, None before the first
    validations,  \* the number of validate_tree calls so far
    last,         \* the last operation: what it ran on and what it recorded
    stack,        \* the frames of the calls of process_with_depth in progress
    active,       \* the grammar set of the process call in progress, if any
    fault         \* the process has overflowed its stack

vars == <<roots, outcome, validations, last, stack, active, fault>>

\* the number of validate_tree calls followed
MaxValidations == 2

\* the number of frames the host stack holds before it overflows
HostStackFrames == 103

Op(op, path, parser, before, log, results, visited, ord) ==
    [op |-> op, path |-> path, parser |-> parser, before |-> before, log |-> log,
     results |-> results, visited |-> visited, ord |-> ord]

NoOp == Op("none", <<>>, "", <<>>, <<>>, <<>>, <<>>, <<>>)

Init ==
    /\ roots \in Documents
    /\ outcome = None
    /\ validations = 0
    /\ last = NoOp
    /\ stack = <<>>
    /\ active = None
    /\ fault = FALSE

\* parser.process(node, frontmatter) for a SentenceParser over grammar set g
SentenceProcess(path, g) ==
    /\ roots' = with_node(roots, path,
                    SentenceParser_process(Grammar(g), node_at(roots, path), Frontmatter))
    /\ last' = Op("sentence", path, g, roots, <<>>, <<>>, <<>>, <<>>)
    /\ UNCHANGED <<outcome, validations, stack, active, fault>>

\* parser.process(root, frontmatter) for a TypedSentencesParser over rule
\* table t
TypedProcess(i, t) ==
    LET done(r) ==
            /\ roots' = [roots EXCEPT ![i] = r.node]
            /\ last' = Op("typed", <<ChildStep(i)>>, t, roots, r.log, <<>>, <<>>, <<>>)
    IN /\ done(TypedSentencesParser_process(Table(t), roots[i], Frontmatter))
       /\ UNCHANGED <<outcome, validations, stack, active, fault>>

\* DokeValidate::validate_tree(&mut roots, frontmatter)
Validate(ord) ==
    LET done(v) ==
            /\ roots' = v.roots
            /\ outcome' = Some(v.res)
            /\ last' = Op("validate", <<>>, "", roots, <<>>, v.results, v.visited, ord)
    IN /\ validations < MaxValidations
       /\ done(validate_tree(roots, ord))
       /\ validations' = validations + 1
       /\ UNCHANGED <<stack, active, fault>>

Next ==
    \/ \E path \in Targets(roots), g \in GrammarNames : SentenceProcess(path, g)
    \/ \E i \in 1..Len(roots), t \in TableNames : TypedProcess(i, t)
    \/ \E ord \in Orders : Validate(ord)

Spec == Init /\ [][Next]_vars

\* ------------------------------------------------------------------------
\* The pipeline on the documents, grammar sets and rule tables that exercise
\* entry selection, parameters and constituents
\* ------------------------------------------------------------------------

InitEntries ==
    /\ roots \in EntryDocuments
    /\ outcome = None
    /\ validations = 0
    /\ last = NoOp
    /\ stack = <<>>
    /\ active = None
    /\ fault = FALSE

NextEntries ==
    \/ \E path \in Targets(roots), g \in EntryGrammarNames : SentenceProcess(path, g)
    \/ \E i \in 1..Len(roots), t \in EntryTableNames : TypedProcess(i, t)
    \/ \E ord \in Orders : Validate(ord)

SpecEntries == InitEntries /\ [][NextEntries]_vars

\* ------------------------------------------------------------------------
\* The pipeline on the grammar sets with literal entries and with malformed
\* templates, and on nodes other parsers have left in a state
\* ------------------------------------------------------------------------

InitReturns ==
    /\ roots \in ReturnDocuments
    /\ outcome = None
    /\ validations = 0
    /\ last = NoOp
    /\ stack = <<>>
    /\ active = None
    /\ fault = FALSE

NextReturns ==
    \/ \E path \in Targets(roots), g \in ReturnGrammarNames : SentenceProcess(path, g)
    \/ \E ord \in Orders : Validate(ord)

SpecReturns == InitReturns /\ [][NextReturns]_vars

\* ------------------------------------------------------------------------
\* Primitive parameters: every short text over the characters of a number,
\* and the tokens of a boolean, as the parameter of a statement
\* ------------------------------------------------------------------------

\* the length of the longest parameter text enumerated
MaxTextLen == 4

RECURSIVE Texts(_, _)
\* the texts of at most n characters of cs
Texts(cs, n) ==
    IF n = 0 THEN {<<>>}
    ELSE LET longer(shorter) == shorter \cup {Append(t, c) : t \in shorter, c \in cs}
         IN longer(Texts(cs, n - 1))

\* twenty nines: a decimal text beyond the 64-bit range
LongDigits == repeat("9", 20)

IntTexts == Texts({"-", "0", "b", "1"}, MaxTextLen) \cup {LongDigits}
FloatTexts == Texts({"-", ".", "1", "e"}, MaxTextLen)
BoolTexts ==
    {<<"t", "r", "u", "e">>, <<"f", "a", "l", "s", "e">>, <<"y", "e", "s">>, <<"n", "o">>,
     <<"1">>, <<"0">>, <<"o", "n">>}

PrimitiveStatements ==
    {<<"d", " ">> \o t : t \in IntTexts}
    \cup {<<"f", " ">> \o t : t \in FloatTexts}
    \cup {<<"b", " ">> \o t : t \in BoolTexts}

InitPrimitives ==
    /\ roots \in {<<Leaf(s, Position(0, Len(s)))>> : s \in PrimitiveStatements}
    /\ outcome = None
    /\ validations = 0
    /\ last = NoOp
    /\ stack = <<>>
    /\ active = None
    /\ fault = FALSE

NextPrimitives ==
    \/ \E path \in Targets(roots) : SentenceProcess(path, "GrammarPrimitives")
    \/ \E ord \in Orders : Validate(ord)

SpecPrimitives == InitPrimitives /\ [][NextPrimitives]_vars

\* ------------------------------------------------------------------------
\* SentenceParser.process followed call by call
\* ------------------------------------------------------------------------

InitDepth ==
    /\ roots \in {<<Leaf(s, Position(0, Len(s)))>> : s \in DepthStatements}
    /\ outcome = None
    /\ validations = 0
    /\ last = NoOp
    /\ stack = <<>>
    /\ active = None
    /\ fault = FALSE

top == stack[Len(stack)]
self_active == Grammar(active[1])
running == active # None /\ ~fault /\ stack # <<>>

\* the stack with its top frame replaced
replace_top(frame) == [stack EXCEPT ![Len(stack)] = frame]

\* parser.process(node, frontmatter): the outermost call, at depth 0
StartStep(g) ==
    LET entered(r) ==
            IF r.done
            THEN /\ roots' = <<r.node>>
                 /\ UNCHANGED <<stack, active>>
            ELSE /\ stack' = <<r.frame>>
                 /\ active' = Some(g)
                 /\ UNCHANGED roots
    IN /\ active = None
       /\ last = NoOp
       /\ entered(enter(Grammar(g), roots[1], Frontmatter, 0))
       /\ last' = Op("sentence", <<ChildStep(1)>>, g, roots, <<>>, <<>>, <<>>, <<>>)
       /\ UNCHANGED <<outcome, validations, fault>>

\* parse_parameters at a parameter that needs no nested call
ParamStep ==
    /\ running
    /\ ~frame_finished(top)
    /\ ~frame_calls(top)
    /\ stack' = replace_top(
           [top EXCEPT !.acc = parse_parameter(self_active, frame_param(top), top.raw,
                                               Frontmatter, top.node.span, @),
                       !.i = @ + 1])
    /\ UNCHANGED <<roots, outcome, validations, last, active, fault>>

\* parse_parameters at a parameter of another type: the nested call
\* `self.process_with_depth(&mut child, frontmatter, 0)`
CallStep ==
    LET entered(r) ==
            stack' = IF r.done THEN replace_top(frame_returned(top, r.node))
                     ELSE Append(stack, r.frame)
    IN /\ running
       /\ frame_calls(top)
       /\ Len(stack) < HostStackFrames
       /\ entered(enter(self_active,
                        constituent_child(frame_param(top), top.raw, top.node.span),
                        Frontmatter, constituent_depth))
       /\ UNCHANGED <<roots, outcome, validations, last, active, fault>>

\* the nested call finds the host stack full
StackOverflow ==
    /\ running
    /\ frame_calls(top)
    /\ Len(stack) >= HostStackFrames
    /\ fault' = TRUE
    /\ UNCHANGED <<roots, outcome, validations, last, stack, active>>

\* a call that has gone through its parameters returns its node
ReturnStep ==
    LET returned(node) ==
            IF Len(stack) = 1
            THEN /\ roots' = <<node>>
                 /\ stack' = <<>>
                 /\ active' = None
            ELSE /\ stack' = Append(SubSeq(stack, 1, Len(stack) - 2),
                                    frame_returned(stack[Len(stack) - 1], node))
                 /\ UNCHANGED <<roots, active>>
    IN /\ running
       /\ frame_finished(top)
       /\ returned(frame_result(top, Frontmatter))
       /\ UNCHANGED <<outcome, validations, last, fault>>

NextDepth ==
    \/ \E g \in DepthGrammarNames : StartStep(g)
    \/ ParamStep
    \/ CallStep
    \/ StackOverflow
    \/ ReturnStep

SpecDepth == InitDepth /\ [][NextDepth]_vars

\* the call-by-call account and process_with_depth agree wherever the
\* process returns
CallStepsAgree ==
    (last.op = "sentence" /\ active = None /\ stack = <<>>)
        => (last.parser # "GrammarLoop"
               => roots = <<SentenceParser_process(Grammar(last.parser),
                                                   last.before[1], Frontmatter)>>)

\* ------------------------------------------------------------------------
\* TypedSentencesParser.process followed call by call down a chain of only
\* children: one frame for every call of process_node_recursive in progress.
\* The chain is kept level by level: roots[d + 1] is the node at depth d,
\* the only child of roots[d]; the `children` fields are left empty.
\* ------------------------------------------------------------------------

\* the number of nested children below the root of the long chain
ChainLength == 102

\* the numbers of nested children of the documents followed
ChainLengths == {2, ChainLength}

ChainStatements == {S_d7, S_zz, S_rd7}

\* the chain of n nested children, all with one statement
ChainLevels(s, n) == [d \in 1..(n + 1) |-> Leaf(s, Position(0, Len(s)))]

\* the chain from level k on as the tree it stands for
RECURSIVE Nested(_, _)
Nested(levels, k) ==
    IF k = Len(levels) THEN levels[k]
    ELSE [levels[k] EXCEPT !.children = <<Nested(levels, k + 1)>>]

\* a call of process_node_recursive that has dispatched its node: the
\* context it hands down and the loop it is in
DescentFrame(depth, ctx) == [depth |-> depth, ctx |-> ctx, loop |-> "children"]

\* a call of process_node_recursive up to its loops: it returns at once
\* beyond the maximum depth, else it dispatches the node if it is
\* Unresolved and goes on to the children
call_node(self, node, frontmatter, parent_abstract_type, depth) ==
    LET entered(own) ==
            [returned |-> FALSE, node |-> own.node,
             frame |-> DescentFrame(depth, current_abstract_type(own.node))]
    IN IF depth > MAX_DEPTH THEN [returned |-> TRUE, node |-> node]
       ELSE IF node.state.k = "Unresolved"
       THEN entered(dispatch(self, node, frontmatter, parent_abstract_type, <<>>))
       ELSE entered([node |-> node])

InitDescent ==
    /\ roots \in {ChainLevels(s, n) : s \in ChainStatements, n \in ChainLengths}
    /\ outcome = None
    /\ validations = 0
    /\ last = NoOp
    /\ stack = <<>>
    /\ active = None
    /\ fault = FALSE

table_active == Table(active[1])

\* the node of the chain the call of the top frame is on
top_node == roots[top.depth + 1]

\* parser.process(root, frontmatter): the outermost call, at depth 0
TypedStart(t) ==
    LET entered(r) ==
            /\ roots' = [roots EXCEPT ![1] = r.node]
            /\ stack' = IF r.returned THEN <<>> ELSE <<r.frame>>
            /\ active' = IF r.returned THEN None ELSE Some(t)
    IN /\ active = None
       /\ last = NoOp
       /\ entered(call_node(Table(t), roots[1], Frontmatter, None, 0))
       /\ last' = Op("descent", <<>>, t, roots, <<>>, <<>>, <<0>>, <<>>)
       /\ UNCHANGED <<outcome, validations, fault>>

\* `for child in &mut node.children { .. }`: the call on the only child
\* (none at the end of the chain), after which the loop is over
ChildCall ==
    LET below == replace_top([top EXCEPT !.loop = "constituents"])
        entered(r) ==
            /\ roots' = [roots EXCEPT ![top.depth + 2] = r.node]
            /\ stack' = IF r.returned THEN below ELSE Append(below, r.frame)
            /\ last' = [last EXCEPT !.visited = Append(@, top.depth + 1)]
    IN /\ running
       /\ top.loop = "children"
       /\ IF top.depth + 1 < Len(roots)
          THEN entered(call_node(table_active, roots[top.depth + 2], Frontmatter,
                                 top.ctx, top.depth + 1))
          ELSE stack' = below /\ UNCHANGED <<roots, last>>
       /\ UNCHANGED <<outcome, validations, active, fault>>

\* `for constituent in node.constituents.values_mut() { .. }`: the calls on
\* the constituents, each with all the calls below it
ConstituentCalls ==
    /\ running
    /\ top.loop = "constituents"
    /\ roots' = [roots EXCEPT ![top.depth + 1] =
                    recurse_constituents(table_active, top_node, Frontmatter, top.ctx,
                                         top.depth, <<>>,
                                         keys_seq(DOMAIN top_node.constituents)).node]
    /\ stack' = replace_top([top EXCEPT !.loop = "done"])
    /\ UNCHANGED <<outcome, validations, last, active, fault>>

\* a call that has gone through its children and constituents returns
DescentReturn ==
    /\ running
    /\ top.loop = "done"
    /\ stack' = SubSeq(stack, 1, Len(stack) - 1)
    /\ active' = IF Len(stack) = 1 THEN None ELSE active
    /\ UNCHANGED <<roots, outcome, validations, last, fault>>

NextDescent ==
    \/ \E t \in EntryTableNames : TypedStart(t)
    \/ ChildCall
    \/ ConstituentCalls
    \/ DescentReturn

SpecDescent == InitDescent /\ [][NextDescent]_vars

\* the call-by-call account and process_node_recursive agree where process
\* has returned (checked on the short chain)
DescentAgrees ==
    (last.op = "descent" /\ active = None /\ Len(roots) < ChainLength)
        => Nested(roots, 1)
              = TypedSentencesParser_process(Table(last.parser),
                                             Nested(last.before, 1), Frontmatter).node

\* ------------------------------------------------------------------------
\* Properties
\* ------------------------------------------------------------------------

Front(s) == SubSeq(s, 1, Len(s) - 1)
Range(s) == {s[i] : i \in 1..Len(s)}
is_prefix(a, b) == Len(a) <= Len(b) /\ SubSeq(b, 1, Len(a)) = a

\* C1: SentenceParser.process always terminates and never nests its calls
\* deeper than the maximum depth: the host stack never overflows, and no
\* more than MAX_DEPTH + 1 calls (depths 0..MAX_DEPTH) are ever in progress,
\* a call beyond that depth ending at once with an Error node.
C1_DepthBounded == ~fault /\ Len(stack) <= MAX_DEPTH + 1

\* C2: a node that is Resolved is in neither Hypothesis nor Unresolved state
\* after any further operation (SentenceParser.process,
\* TypedSentencesParser.process, validate_tree).
C2_ResolvedStays ==
    [][\A p \in Paths(roots) :
          node_at(roots, p).state.k = "Resolved"
              => /\ p \in Paths(roots')
                 /\ node_at(roots', p).state.k \notin {"Hypothesis", "Unresolved"}]_vars

\* a parser has run on a root that was Resolved, after a validation
C2_Witness ==
    /\ last.op \in {"sentence", "typed"}
    /\ validations > 0
    /\ node_at(last.before, last.path).state.k = "Resolved"
    /\ node_at(roots, last.path).state.k = "Resolved"

\* the roots that failed in the last validate_tree, in root order
RECURSIVE failing_from(_, _)
failing_from(results, i) ==
    IF i > Len(results) THEN <<>>
    ELSE (IF results[i].ok THEN <<>> ELSE <<i>>) \o failing_from(results, i + 1)

\* C3: validate_tree processes every one of the N roots, and with k roots
\* failing: k = 0 gives Ok with the N values in root order, k = 1 gives
\* that root's error itself, k >= 2 gives MultipleErrors with exactly the k
\* errors in root order.
C3_Aggregation ==
    last.op = "validate" =>
        LET n == Len(last.before)
            failing == failing_from(last.results, 1)
            k == Len(failing)
            res == outcome[1]
        IN /\ Len(last.results) = n
           /\ \A i \in 1..n : last.visited[i] # <<>>
           /\ k = 0 => /\ res.ok
                       /\ Len(res.v) = n
                       /\ \A i \in 1..n : res.v[i] = last.results[i].v
           /\ k = 1 => /\ ~res.ok
                       /\ res.e = last.results[failing[1]].e
           /\ k >= 2 => /\ ~res.ok
                        /\ res.e.e = "MultipleErrors"
                        /\ Len(res.e.errors) = k
                        /\ \A j \in 1..k : res.e.errors[j] = last.results[failing[j]].e

\* three roots validated, two of them failing
C3_Witness ==
    /\ last.op = "validate"
    /\ Len(last.before) = 3
    /\ Len(failing_from(last.results, 1)) = 2
    /\ last.results[1].ok

\* the entries of a dispatch log for the node at `path` in one pass
PassLog(log, path, pass) == SelectSeq(log, LAMBDA e : e.path = path /\ e.pass = pass)

\* the rule of configuration t a loaded rule comes from
ConfigIndex(t, rule) ==
    CHOOSE i \in 1..Len(Config(t)) : Config(t)[i].for = rule.target_type

\* r1 ranks before r2: higher priority, or equal priority and earlier in
\* the configuration
RanksBefore(t, r1, r2) ==
    \/ r1.priority > r2.priority
    \/ r1.priority = r2.priority /\ ConfigIndex(t, r1) < ConfigIndex(t, r2)

\* the Grammar Set of a SentenceParser matches the statement of a node
GrammarMatches(parser, node) ==
    collect_matches(parser.phrases, 1, statement_to_match(node)) # <<>>

\* the parent-type context of the node at `path` (None for a root)
ParentType(root_nodes, path) ==
    IF Len(path) <= 1 THEN None
    ELSE current_abstract_type(node_at(root_nodes, Front(path)))

\* the rules dispatch holds eligible for a node in a pass
Eligible(t, pass, parent) ==
    {r \in Range(Table(t).rules) : pass = "all" \/ rule_matches_parent(r, parent)}

\* the nodes the last TypedSentencesParser.process dispatched rules on, as
\* paths below the root it ran on
Dispatched == {e.path : e \in Range(last.log)}

\* C4: in each pass of a dispatch the eligible rules are run in descending
\* priority, rules of equal priority in configuration order, none is
\* skipped, and none is run after the one that resolved the node: the
\* winner is the first eligible rule in that order whose Grammar Set
\* matches the statement.
C4_DispatchOrder ==
    last.op = "typed" =>
        \A q \in Dispatched, pass \in {"scoped", "all"} :
            LET tried == PassLog(last.log, q, pass)
                before == node_at(last.before, last.path \o q)
                elig == Eligible(last.parser, pass, ParentType(roots, last.path \o q))
            IN /\ \A j \in 1..(Len(tried) - 1) :
                     /\ ~tried[j].resolved
                     /\ RanksBefore(last.parser, tried[j].rule, tried[j + 1].rule)
               /\ \A j \in 1..Len(tried) :
                     /\ tried[j].rule \in elig
                     /\ \A r \in elig :
                           RanksBefore(last.parser, r, tried[j].rule)
                               => /\ \E i \in 1..(j - 1) : tried[i].rule = r
                                  /\ ~GrammarMatches(r.sentence_parser, before)
                     /\ tried[j].resolved
                           <=> GrammarMatches(tried[j].rule.sentence_parser, before)

\* the higher-priority rule was run first and failed, the next one won
C4_Witness ==
    /\ last.op = "typed"
    /\ \E i \in 1..(Len(last.log) - 1) :
          /\ last.log[i].path = last.log[i + 1].path
          /\ last.log[i].pass = last.log[i + 1].pass
          /\ last.log[i].rule.priority > last.log[i + 1].rule.priority
          /\ ~last.log[i].resolved
          /\ last.log[i + 1].resolved

\* C5: for a node whose parent resolved to abstract type P, if a rule whose
\* configured child specification allows P has a Grammar Set that matches
\* the node, the rule that wins the node is one that allows P.
C5_ScopedFirst ==
    last.op = "typed" =>
        \A e \in Range(last.log) :
            LET parent == ParentType(roots, last.path \o e.path)
                before == node_at(last.before, last.path \o e.path)
                config == Config(last.parser)
                allows(c) == allowed(c.children, parent[1])
            IN (e.resolved /\ parent # None)
                  => ((\E i \in 1..Len(config) :
                          /\ allows(config[i])
                          /\ GrammarMatches(from_yaml(config[i].parser).v, before))
                      => allows(config[ConfigIndex(last.parser, e.rule)]))

\* C6: after dispatch on an Unresolved node, whatever its parent type, the
\* node is Resolved whenever some rule of the table has a Grammar Set that
\* matches its statement; the pass over all rules runs each rule at most
\* once.
C6_FallbackResolves ==
    last.op = "typed" =>
        \A p \in Paths(last.before) :
            (is_prefix(last.path, p) /\ node_at(last.before, p).state.k = "Unresolved")
                => LET before == node_at(last.before, p)
                       fallback == PassLog(last.log, SubSeq(p, 2, Len(p)), "all")
                   IN /\ (\E r \in Range(Table(last.parser).rules) :
                              GrammarMatches(r.sentence_parser, before))
                          => node_at(roots, p).state.k = "Resolved"
                      /\ \A i, j \in 1..Len(fallback) :
                            i # j => fallback[i].rule # fallback[j].rule

\* a node below a typed parent was resolved in the pass over all rules
C6_Witness ==
    /\ last.op = "typed"
    /\ \E e \in Range(last.log) :
          /\ e.path # <<>>
          /\ e.pass = "all"
          /\ e.resolved
          /\ ParentType(roots, last.path \o e.path) # None

\* C7: when no phrase of the Grammar Set matches the trimmed statement of
\* an Unresolved node, SentenceParser.process leaves it in Hypothesis state
\* with exactly one candidate, of negative confidence, whose promotion
\* fails with the no-match error naming the statement; the node gains no
\* constituents.
C7_NoMatchHypothesis ==
    last.op = "sentence" =>
        LET before == node_at(last.before, last.path)
            after == node_at(roots, last.path)
        IN (before.state.k = "Unresolved" /\ ~GrammarMatches(Grammar(last.parser), before))
              => /\ after.state.k = "Hypothesis"
                 /\ Len(after.state.hypos) = 1
                 /\ confidence(after.state.hypos[1]) < 0
                 /\ promote(after.state.hypos[1]) = Err(NoMatch(statement_to_match(before)))
                 /\ after.constituents = before.constituents

\* a statement with trailing punctuation that no phrase matched
C7_Witness ==
    /\ last.op = "sentence"
    /\ node_at(last.before, last.path).state.k = "Unresolved"
    /\ node_at(roots, last.path).state.k = "Hypothesis"
    /\ node_at(roots, last.path).statement # statement_to_match(node_at(roots, last.path))

\* the nodes whose own state the last validation examined
Examined == UNION {Range(last.visited[i]) : i \in 1..Len(last.visited)}

\* the candidates of greatest confidence
Best(hypos) ==
    {i \in 1..Len(hypos) :
        \A j \in 1..Len(hypos) : confidence(hypos[j]) <= confidence(hypos[i])}

\* validation of the root of the node at p ended at p, with error e
EndedWith(p, e) ==
    LET ended(res, visited) ==
            /\ ~res.ok
            /\ res.e = e
            /\ visited[Len(visited)] = p
    IN ended(last.results[Head(p).i], last.visited[Head(p).i])

\* C8: a node in Hypothesis state whose children and constituents all
\* validated has a candidate of maximum confidence promoted: if the
\* promotion succeeds the node is Resolved afterwards (with the promoted
\* result itself when there is nothing to merge), if it fails the node
\* yields HypothesisPromotionFailed with the node's span; a candidate of
\* negative confidence is not the one promoted when the node holds one of
\* positive confidence.
C8_PromotesBest ==
    last.op = "validate" =>
        \A p \in Examined :
            LET before == node_at(last.before, p)
                after == node_at(roots, p)
                attempt(hypo, promoted) ==
                    /\ (confidence(hypo) < 0
                           => \A h \in Range(before.state.hypos) : confidence(h) <= 0)
                    /\ promoted.ok
                           => /\ after.state.k = "Resolved"
                              /\ (before.children = <<>> /\ before.constituents = EmptyMap)
                                     => after.state.result = promoted.v
                    /\ ~promoted.ok
                           => EndedWith(p, HypothesisPromotionFailed(promoted.e, before.span))
            IN (before.state.k = "Hypothesis" /\ before.state.hypos # <<>>)
                  => \E i \in Best(before.state.hypos) :
                        attempt(before.state.hypos[i], promote(before.state.hypos[i]))

\* C9: after validate_tree reports a promotion failure for a Hypothesis
\* node, the node is still in Hypothesis state with the candidates it had
\* before the validation.
C9_FailedPromotionKeepsCandidates ==
    last.op = "validate" =>
        \A p \in Examined :
            LET before == node_at(last.before, p)
            IN (/\ before.state.k = "Hypothesis"
                /\ \E h \in Range(before.state.hypos) :
                      EndedWith(p, HypothesisPromotionFailed(promote(h).e, before.span)))
                  => node_at(roots, p).state = before.state

RECURSIVE PostOrder(_, _, _)
RECURSIVE PostOrderChildren(_, _, _, _)
RECURSIVE PostOrderConstituents(_, _, _, _)

\* the nodes of a subtree, children in order, then constituents in the
\* order the map yields them, then the node
PostOrder(node, ord, path) ==
    PostOrderChildren(node, ord, path, 1)
    \o PostOrderConstituents(node, ord, path,
                             names_in_order(ord, DOMAIN node.constituents))
    \o <<path>>

PostOrderChildren(node, ord, path, i) ==
    IF i > Len(node.children) THEN <<>>
    ELSE PostOrder(node.children[i], ord, Append(path, ChildStep(i)))
         \o PostOrderChildren(node, ord, path, i + 1)

PostOrderConstituents(node, ord, path, names) ==
    IF names = <<>> THEN <<>>
    ELSE PostOrder(node.constituents[Head(names)], ord,
                   Append(path, ConstituentStep(Head(names))))
         \o PostOrderConstituents(node, ord, path, Tail(names))

\* C10: validation examines the nodes of a root's subtree in post-order,
\* children in order and then constituents; at the first node that fails
\* it stops: no node after it in that order is examined, the nodes not
\* examined (the failing node's ancestors among them) keep their state, and
\* the root's result is exactly the error of the node that failed.
C10_PostOrderFirstError ==
    last.op = "validate" =>
        \A i \in 1..Len(last.before) :
            LET check(order, visited, res) ==
                    /\ is_prefix(visited, order)
                    /\ visited # <<>>
                    /\ res.ok => visited = order
                    /\ ~res.ok =>
                          /\ \A j \in (Len(visited) + 1)..Len(order) :
                                node_at(roots, order[j]).state
                                    = node_at(last.before, order[j]).state
                          /\ res = process_node(node_at(last.before, visited[Len(visited)]),
                                                last.ord, visited[Len(visited)]).res
            IN check(PostOrder(last.before[i], last.ord, <<ChildStep(i)>>),
                     last.visited[i], last.results[i])

\* a constituent failed: the constituent after it and the node holding
\* both were not examined
C10_Witness ==
    /\ last.op = "validate"
    /\ \E i \in 1..Len(last.before) :
          /\ ~last.results[i].ok
          /\ Len(last.visited[i]) + 2
                 <= Len(PostOrder(last.before[i], last.ord, <<ChildStep(i)>>))
          /\ last.visited[i][Len(last.visited[i])][2].kind = "constituent"

\* the node at p was examined by the last validation and yielded a value
Validated(p) ==
    /\ p \in Examined
    /\ \/ last.results[Head(p).i].ok
       \/ last.visited[Head(p).i][Len(last.visited[Head(p).i])] # p

\* the final Value of the node at p
FinalValue(p) == to_godot(node_at(roots, p).state.result)

\* the node holds a result of a phrase that returns a type
IsTypeResult(node) ==
    /\ node.state.k = "Resolved"
    /\ node.state.result.r = "SentenceResult"
    /\ node.state.result.literal_value = None

SelectedEntry(parser, node) ==
    LET selected(matches) ==
            IF matches = <<>> THEN None ELSE Some(matches[best_match(matches)])
    IN selected(collect_matches(parser.phrases, 1, statement_to_match(node)))

\* the primitive parameters of a selected entry whose captured text parses
ParsedPrimitives(entry) ==
    {pd \in Range(entry.phrase.parameters) :
        /\ is_basic_type(pd.param_type)
        /\ map_has(entry.raw, pd.name)
        /\ parse_basic_parameter(entry.raw[pd.name], pd.param_type).ok}

\* the result SentenceParser.process leaves for an entry that returns a
\* type holds that type's name and exactly the parsed primitive parameters
TypeResultOfEntry ==
    last.op = "sentence" =>
        LET before == node_at(last.before, last.path)
            result == node_at(roots, last.path).state.result
            built(entry) ==
                /\ result.output_type = entry.phrase.return_spec.name
                /\ DOMAIN result.parameters = {pd.name : pd \in ParsedPrimitives(entry)}
                /\ \A pd \in ParsedPrimitives(entry) :
                      result.parameters[pd.name] =
                          parse_basic_parameter(entry.raw[pd.name], pd.param_type).v
            typed(sel) ==
                (sel # None /\ sel[1].phrase.return_spec.k = "Type") => built(sel[1])
        IN before.state.k = "Unresolved"
              => typed(SelectedEntry(Grammar(last.parser), before))

\* the final Value of a validated node with a Type result is a Resource of
\* the result's type whose fields are the parsed parameters, the
\* constituents, "children" if the node has any, and the keys of `extra`
TypeResourceFields(extra) ==
    last.op = "validate" =>
        \A p \in Examined :
            LET before == node_at(last.before, p)
                keys(result) ==
                    DOMAIN result.parameters \cup DOMAIN before.constituents
                    \cup (IF before.children = <<>> THEN {} ELSE {Key_children})
                    \cup extra
                built(result, value) ==
                    /\ value.t = "Resource"
                    /\ value.type_name = result.output_type
                    /\ DOMAIN value.fields = keys(result)
                    /\ \A n \in DOMAIN result.parameters :
                          n \notin DOMAIN before.constituents \cup {Key_children} \cup extra
                              => value.fields[n] = result.parameters[n]
            IN (IsTypeResult(before) /\ Validated(p))
                  => built(before.state.result, FinalValue(p))

\* C12 as stated: the final Value of a node resolved by an entry that
\* returns Type(name) is a Resource named `name` whose fields are exactly
\* the parsed primitive parameters, the merged constituents and the
\* children, and no other field.
C12_TypeResource == TypeResultOfEntry /\ TypeResourceFields({})

\* C12: the final Value of a node resolved by an entry that returns
\* Type(name) is a Resource named `name` whose fields are exactly the parsed
\* primitive parameters, the merged constituents, the children, and the
\* field "doke_tr_key", a String holding the translation key of the entry.
C12_TypeResourceWithKey ==
    /\ TypeResultOfEntry
    /\ TypeResourceFields({Key_doke_tr_key})
    /\ last.op = "validate" =>
          \A p \in Examined :
              (IsTypeResult(node_at(last.before, p)) /\ Validated(p))
                  => FinalValue(p).fields[Key_doke_tr_key]
                         = GString(node_at(last.before, p).state.result.tr_key)

\* "d 7" resolved by "d {n: int}" of section D and validated
C12_Witness ==
    /\ last.op = "validate"
    /\ outcome[1].ok
    /\ last.before[1].statement = S_d7
    /\ IsTypeResult(last.before[1])
    /\ last.before[1].state.result.output_type = <<"D">>
    /\ FinalValue(<<ChildStep(1)>>).fields[<<"n">>] = GInt(7)

RECURSIVE placeholder_chars(_, _)
\* the characters of a template its placeholders take
placeholder_chars(ms, i) ==
    IF i > Len(ms) THEN 0 ELSE (ms[i].end - ms[i].start) + placeholder_chars(ms, i + 1)

\* the literal character count of a template: its text outside placeholders
LiteralCount(pattern) ==
    Len(pattern) - placeholder_chars(captures_iter(param_re, 2, pattern, 1), 1)

\* C13: of the entries that match a statement with the same number of
\* parameters and different literal character counts, the one
\* SentenceParser.process resolves the node with has more literal
\* characters than any other.
C13_LongerLiteralWins ==
    last.op = "sentence" =>
        LET before == node_at(last.before, last.path)
            after == node_at(roots, last.path)
            wins(sel, matches) ==
                \A i \in 1..Len(matches) :
                    (/\ Len(matches[i].phrase.parameters) = Len(sel.parameters)
                     /\ LiteralCount(matches[i].phrase.pattern) # LiteralCount(sel.pattern))
                        => LiteralCount(sel.pattern) > LiteralCount(matches[i].phrase.pattern)
            selected(matches) ==
                matches # <<>> =>
                    /\ after.state.k = "Resolved"
                    /\ \E i \in 1..Len(matches) :
                          /\ after.state.result.tr_key = make_tr_key(matches[i].phrase)
                          /\ wins(matches[i].phrase, matches)
        IN before.state.k = "Unresolved"
              => selected(collect_matches(Grammar(last.parser).phrases, 1,
                                          statement_to_match(before)))

\* the Value variant of a primitive type
VariantOf(param_type) ==
    CASE to_lowercase(param_type) = Str_int -> "Int"
      [] to_lowercase(param_type) = Str_float -> "Float"
      [] to_lowercase(param_type) = Str_bool -> "Bool"
      [] OTHER -> "String"

\* the parameters of the given primitive types that the selected entry
\* captured are all in the result, each as the variant of its type
CapturedAreParsed(types) ==
    last.op = "sentence" =>
        LET before == node_at(last.before, last.path)
            after == node_at(roots, last.path)
            parsed(entry) ==
                \A pd \in Range(entry.phrase.parameters) :
                    (to_lowercase(pd.param_type) \in types /\ map_has(entry.raw, pd.name))
                        => /\ after.state.k = "Resolved"
                           /\ map_has(after.state.result.parameters, pd.name)
                           /\ after.state.result.parameters[pd.name].t
                                  = VariantOf(pd.param_type)
            captured(sel) == sel # None => parsed(sel[1])
        IN before.state.k = "Unresolved"
              => captured(SelectedEntry(Grammar(last.parser), before))

\* C14: every text the int, float or bool capture group of a template
\* captures is parsed by parse_basic_parameter into an Int, a Float or a
\* Bool: the parameter is in the result of the node, never left out for a
\* parse error.
C14_PrimitivesTotal == CapturedAreParsed({Str_int, Str_float, Str_bool})

\* the expected-type hint a node carries, None if it carries none
ExpectedType(node) ==
    IF map_has(node.parse_data, Key_sentence_type)
    THEN Some(node.parse_data[Key_sentence_type].s) ELSE None

\* C15: a node that carries an expected-type hint T and is Resolved by a
\* Grammar Entry was resolved by an entry of type T: the entry's section or
\* the type it returns is T.
C15_HintRestrictsEntries ==
    \A p \in Paths(roots) :
        LET node == node_at(roots, p)
            of_type(ty, result) ==
                \/ result.output_type = ty
                \/ starts_with(result.tr_key, ty \o <<"_">>)
        IN (/\ ExpectedType(node) # None
            /\ node.state.k = "Resolved"
            /\ node.state.result.r = "SentenceResult")
              => of_type(ExpectedType(node)[1], node.state.result)


\* the templates of type ty in a Grammar Set: the phrases of section ty
TemplatesOf(parser, ty) == SelectSeq(parser.phrases, LAMBDA ph : ph.section = ty)

\* C16: after TypedSentencesParser.process, a constituent whose declared
\* type has no template in the Grammar Set of the rule that resolved its
\* parent, and whose text matches a template of that type in the Grammar
\* Set of another rule of the table, is Resolved.
C16_ConstituentFullDispatch ==
    last.op = "typed" =>
        \A p \in Paths(roots) :
            LET node == node_at(roots, p)
                rules == Range(Table(last.parser).rules)
                matching(rule, ty) ==
                    collect_matches(TemplatesOf(rule.sentence_parser, ty), 1,
                                    statement_to_match(node)) # <<>>
                only_elsewhere(parent_type, ty) ==
                    /\ parent_type # None
                    /\ \A r \in rules :
                          r.target_type = parent_type[1]
                              => TemplatesOf(r.sentence_parser, ty) = <<>>
                    /\ \E r \in rules : matching(r, ty)
            IN (/\ is_prefix(last.path, p)
                /\ p[Len(p)].kind = "constituent"
                /\ ExpectedType(node) # None
                /\ only_elsewhere(ParentType(roots, p), ExpectedType(node)[1]))
                  => node.state.k = "Resolved"


\* the entries of the last dispatch log for the node at a path below the
\* processed root
EntriesAt(path) == SelectSeq(last.log, LAMBDA e : e.path = path)

\* C17: a rule that resolves a node leaves its target type in the parse_data
\* of the node under "abstract_type", and every rule run on a child or a
\* constituent of that node was run with that type as parent_abstract_type;
\* a node no rule resolved has the parse_data it had before.
C17_AbstractTypeContext ==
    last.op = "typed" =>
        \A e \in Range(last.log) :
            LET node == node_at(roots, last.path \o e.path)
                before == node_at(last.before, last.path \o e.path)
                resolver(entries) == entries[Len(entries)]
                recorded(rule) ==
                    /\ node.state.k = "Resolved"
                    /\ node.parse_data
                           = map_insert(before.parse_data, Key_abstract_type,
                                        GString(rule.target_type))
                handed_down(parent_entries) ==
                    (parent_entries # <<>> /\ resolver(parent_entries).resolved)
                        => e.parent = Some(resolver(parent_entries).rule.target_type)
                own(entries) ==
                    IF resolver(entries).resolved THEN recorded(resolver(entries).rule)
                    ELSE node.parse_data = before.parse_data
            IN /\ own(EntriesAt(e.path))
               /\ e.path # <<>> => handed_down(EntriesAt(Front(e.path)))

\* a rule resolved a node and a rule was then run on a child of it; some
\* rule run did not resolve its node
C17_Witness ==
    /\ last.op = "typed"
    /\ \E e1, e2 \in Range(last.log) :
          /\ e1.resolved
          /\ e2.path # <<>> /\ Front(e2.path) = e1.path
          /\ e2.parent = Some(e1.rule.target_type)
    /\ \E e \in Range(last.log) : ~e.resolved


\* C18: a node that a call of process_node_recursive reaches at a depth
\* greater than 100 is in Error state once process has returned.
C18_DeepNodeInError ==
    (last.op = "descent" /\ active = None) =>
        \A d \in Range(last.visited) :
            d > MAX_DEPTH => roots[d + 1].state.k = "Error"


\* the subsequence `part` occurs in s
contains(s, part) ==
    \E i \in 0..(Len(s) - Len(part)) : SubSeq(s, i + 1, i + Len(part)) = part

\* C19: when the text captured for a primitive parameter of the selected
\* entry fails to parse, SentenceParser.process leaves the node Resolved by
\* that entry, without the parameter among the result's parameters, and
\* with a new key in parse_data that names the parameter.
C19_ParseFailureRecorded ==
    last.op = "sentence" =>
        LET before == node_at(last.before, last.path)
            after == node_at(roots, last.path)
            fails(entry, pd) ==
                /\ is_basic_type(pd.param_type)
                /\ map_has(entry.raw, pd.name)
                /\ ~parse_basic_parameter(entry.raw[pd.name], pd.param_type).ok
            recorded(entry, pd) ==
                /\ after.state.k = "Resolved"
                /\ after.state.result.tr_key = make_tr_key(entry.phrase)
                /\ ~map_has(after.state.result.parameters, pd.name)
                /\ \E key \in DOMAIN after.parse_data \ DOMAIN before.parse_data :
                      contains(key, pd.name)
            checked(sel) ==
                sel # None =>
                    \A pd \in Range(sel[1].phrase.parameters) :
                        fails(sel[1], pd) => recorded(sel[1], pd)
        IN before.state.k = "Unresolved"
              => checked(SelectedEntry(Grammar(last.parser), before))


\* C20: with the template "d {n:?}", whose parameter n is marked optional,
\* SentenceParser.process resolves both the statement that supplies the
\* parameter ("d 7") and the statement that omits it with the whitespace
\* before it ("d"), the second without a parameter or constituent n.
C20_OptionalParameter ==
    (last.op = "sentence" /\ last.parser = "Grammar5") =>
        LET before == node_at(last.before, last.path)
            after == node_at(roots, last.path)
            without(name) ==
                /\ ~map_has(after.state.result.parameters, name)
                /\ ~map_has(after.constituents, name)
        IN (/\ before.state.k = "Unresolved"
            /\ statement_to_match(before) \in {S_d7, S_d})
              => /\ after.state.k = "Resolved"
                 /\ statement_to_match(before) = S_d => without(<<"n">>)


\* the placeholders of a template, as param_re finds them
Placeholders(pattern) == captures_iter(param_re, 2, pattern, 1)

\* a template is well formed: every brace belongs to a placeholder, and a
\* placeholder that has a type part names a type
WellFormed(pattern) ==
    LET inside(ms) == UNION {ms[i].start..(ms[i].end - 1) : i \in 1..Len(ms)}
        balanced(ms) ==
            \A p \in (1..Len(pattern)) \ inside(ms) : pattern[p] \notin {"{", "}"}
        typed(ms) ==
            \A i \in 1..Len(ms) :
                ms[i].caps[2].on => trim(capture_text(pattern, ms[i], 2)) # <<>>
        both(ms) == balanced(ms) /\ typed(ms)
    IN both(Placeholders(pattern))

\* C21: a Grammar Set a SentenceParser runs with holds no entry compiled
\* from a malformed template (unbalanced braces or an empty type):
\* from_yaml fails on a configuration that has one.
C21_MalformedTemplateRejected ==
    last.op = "sentence" =>
        \A ph \in Range(Grammar(last.parser).phrases) : WellFormed(ph.pattern)


\* the literal table of a type in a Grammar Set: the entries of the section
\* of that name that map a text without placeholders to a Value
EnumEntries(parser, ty) ==
    {ph \in Range(parser.phrases) :
        /\ ph.section = ty
        /\ ph.return_spec.k = "Literal"
        /\ ph.parameters = <<>>}

\* C22: for a parameter of a complex type with a literal table, captured
\* text equal to one of the table's texts puts the mapped Value under the
\* parameter's name in the result and creates no constituent; a constituent
\* is created only for text that equals none of them.
C22_EnumSubstituted ==
    last.op = "sentence" =>
        LET before == node_at(last.before, last.path)
            after == node_at(roots, last.path)
            substituted(name, value) ==
                /\ after.state.k = "Resolved"
                /\ map_has(after.state.result.parameters, name)
                /\ after.state.result.parameters[name] = value
                /\ ~map_has(after.constituents, name)
            by_table(table, name, text) ==
                /\ \A ph \in table : ph.pattern = text => substituted(name, ph.return_spec.v)
                /\ (\A ph \in table : ph.pattern # text) => map_has(after.constituents, name)
            checked(sel) ==
                sel # None =>
                    \A pd \in Range(sel[1].phrase.parameters) :
                        (/\ ~is_basic_type(pd.param_type)
                         /\ map_has(sel[1].raw, pd.name)
                         /\ EnumEntries(Grammar(last.parser), pd.param_type) # {})
                            => by_table(EnumEntries(Grammar(last.parser), pd.param_type),
                                        pd.name, trim(sel[1].raw[pd.name]))
        IN before.state.k = "Unresolved"
              => checked(SelectedEntry(Grammar(last.parser), before))


\* the node holds the result of a phrase that returns a literal
IsLiteralResult(node) ==
    /\ node.state.k = "Resolved"
    /\ node.state.result.r = "SentenceResult"
    /\ node.state.result.literal_value # None

\* C23: an entry whose Return Specification is Literal(v) resolves a node
\* to a result that holds v, and when validate_tree has validated a node
\* with such a result its final Value is v (for a root, the Value
\* validate_tree returns for it), whatever parameters the entry captured
\* and whatever children and constituents were merged.
C23_LiteralValueFixed ==
    /\ last.op = "sentence" =>
           LET before == node_at(last.before, last.path)
               after == node_at(roots, last.path)
               holds(spec) ==
                   spec.k = "Literal"
                       => /\ after.state.k = "Resolved"
                          /\ after.state.result.literal_value = Some(spec.v)
               checked(sel) == sel # None => holds(sel[1].phrase.return_spec)
           IN before.state.k = "Unresolved"
                 => checked(SelectedEntry(Grammar(last.parser), before))
    /\ last.op = "validate" =>
           \A p \in Paths(last.before) :
               LET was == node_at(last.before, p)
                   fixed(v) ==
                       /\ FinalValue(p) = v
                       /\ Len(p) = 1 => last.results[Head(p).i] = Ok(v)
               IN (IsLiteralResult(was) /\ Validated(p))
                     => fixed(was.state.result.literal_value[1])

\* validate_tree has validated a root that an entry resolved to a literal,
\* with a captured parameter and a child merged into it
C23_Witness ==
    /\ last.op = "validate"
    /\ \E i \in 1..Len(roots) :
          /\ IsLiteralResult(last.before[i])
          /\ last.before[i].state.result.parameters # EmptyMap
          /\ last.before[i].children # <<>>
          /\ last.results[i].ok


\* Nil, Bool, Int, Float or String
Scalar(v) == v.t \in {"Nil", "Bool", "Int", "Float", "String"}

\* the Result of the node is a scalar Value held as such
IsScalarValue(node) ==
    /\ node.state.k = "Resolved"
    /\ node.state.result.r = "GodotValue"
    /\ Scalar(node.state.result.v)

\* the Result of the node is a scalar Value: held as such, or the literal
\* of a sentence entry
IsScalarResult(node) ==
    \/ IsScalarValue(node)
    \/ IsLiteralResult(node) /\ Scalar(node.state.result.literal_value[1])

\* validate_tree reports ChildUsageFailed for the root of every node it
\* examined that satisfies `scalar` and has a child
MergeFailureReported(scalar(_)) ==
    last.op = "validate" =>
        \A p \in Examined :
            LET was == node_at(last.before, p)
            IN (scalar(was) /\ was.children # <<>>)
                  => /\ ~last.results[Head(p).i].ok
                     /\ last.results[Head(p).i].e.e = "ChildUsageFailed"

\* C24: when validate_tree comes to merge the validated children of a node
\* whose Result is a scalar Value (the literal result of a sentence entry
\* included), it returns a ChildUsageFailed error for that root.
C24_ScalarChildReported == MergeFailureReported(IsScalarResult)


\* C25: when validate_tree comes to the state of a node (its children and
\* constituents have validated) and the node is Unresolved, the result for
\* its root is UnresolvedNode with the node's statement; when it is in
\* Error state, NodeError with the node's statement and the stored message.
\* The state of the node is left as it was.
C25_UnresolvedAndErrorReported ==
    last.op = "validate" =>
        \A p \in Examined :
            LET was == node_at(last.before, p)
                res == last.results[Head(p).i]
                kept == node_at(roots, p).state = was.state
            IN /\ was.state.k = "Unresolved"
                     => /\ ~res.ok
                        /\ res.e.e = "UnresolvedNode"
                        /\ res.e.statement = was.statement
                        /\ kept
               /\ was.state.k = "Error"
                     => /\ ~res.ok
                        /\ res.e.e = "NodeError"
                        /\ res.e.statement = was.statement
                        /\ res.e.msg = was.state.error.msg
                        /\ kept

\* validate_tree has examined a node in Error state that has a validated
\* child, and an Unresolved node
C25_Witness ==
    /\ last.op = "validate"
    /\ \E p \in Examined :
          /\ node_at(last.before, p).state.k = "Error"
          /\ node_at(last.before, p).children # <<>>
    /\ \E p \in Examined : node_at(last.before, p).state.k = "Unresolved"


\* C26: a node that TypedSentencesParser.process ran rules on, none of which
\* resolved it, is left in Hypothesis state with the no-match candidate of
\* its statement: no node a Grammar Set has been run on is Unresolved when
\* process returns.
C26_NoMatchKeptAfterDispatch ==
    last.op = "typed" =>
        \A e \in Range(last.log) :
            LET node == node_at(roots, last.path \o e.path)
                candidate == ErrorHypo(NoMatch(statement_to_match(node)),
                                       statement_to_match(node))
            IN /\ node.state.k # "Unresolved"
               /\ (\A f \in Range(EntriesAt(e.path)) : ~f.resolved)
                     => /\ node.state.k = "Hypothesis"
                        /\ candidate \in Range(node.state.hypos)


\* a text without its last character if that is '.' or ':'
DropOneTrailing(s) ==
    IF s # <<>> /\ s[Len(s)] \in {".", ":"} THEN SubSeq(s, 1, Len(s) - 1) ELSE s

\* C27: the text SentenceParser.process gives to the matchers is the
\* statement trimmed of surrounding whitespace, less one trailing '.' or
\* ':' if it has one; it is the text the no-match candidate records.
C27_SingleTrailingDropped ==
    last.op = "sentence" =>
        LET before == node_at(last.before, last.path)
            after == node_at(roots, last.path)
        IN (before.state.k = "Unresolved" /\ after.state.k = "Hypothesis")
              => \A i \in 1..Len(after.state.hypos) :
                    after.state.hypos[i].statement
                        = DropOneTrailing(trim(before.statement))


\* a constituent that validation cannot promote: every candidate is an
\* error candidate
FailedConstituent(node) ==
    /\ node.state.k = "Hypothesis"
    /\ node.state.hypos # <<>>
    /\ \A i \in 1..Len(node.state.hypos) :
          node.state.hypos[i].h = "SentenceParseError"

\* C28: the entry selected for a node is kept whatever becomes of its
\* constituents: the node is Resolved with the selected entry's return
\* and has one constituent per captured parameter of another type, made
\* of the captured text, resolved or not; validation of a Resolved root
\* with a failed constituent leaves the root as it was and reports that
\* constituent's promotion failure for the root.
C28_GreedySelection ==
    /\ last.op = "sentence" =>
          LET before == node_at(last.before, last.path)
              after == node_at(roots, last.path)
              kept(entry) ==
                  /\ after.state.k = "Resolved"
                  /\ after.state.result.tr_key = make_tr_key(entry.phrase)
                  /\ DOMAIN after.constituents
                        = DOMAIN before.constituents
                          \cup {pd.name : pd \in
                                  {q \in Range(entry.phrase.parameters) :
                                      is_constituent_param(q, entry.raw)}}
                  /\ \A pd \in Range(entry.phrase.parameters) :
                        is_constituent_param(pd, entry.raw)
                            => after.constituents[pd.name].statement
                                   = entry.raw[pd.name]
              selected(sel) == sel # None => kept(sel[1])
          IN before.state.k = "Unresolved"
                => selected(SelectedEntry(Grammar(last.parser), before))
    /\ last.op = "validate" =>
          \A p \in Examined :
              LET c == node_at(last.before, p)
                  parent == node_at(last.before, Front(p))
                  res == last.results[Head(p).i]
              IN (/\ Len(p) = 2
                  /\ p[2].kind = "constituent"
                  /\ parent.state.k = "Resolved"
                  /\ FailedConstituent(c))
                 => /\ ~res.ok
                    /\ res.e = HypothesisPromotionFailed(
                                   c.state.hypos[best_index(c.state.hypos)].error,
                                   c.span)
                    /\ roots[Head(p).i].state = parent.state
                    /\ DOMAIN roots[Head(p).i].constituents
                          = DOMAIN parent.constituents

\* validate_tree has examined the failed constituent of a Resolved root
\* whose statement two entries of the grammar match
C28_Witness ==
    /\ last.op = "validate"
    /\ \E p \in Examined :
          /\ Len(p) = 2
          /\ p[2].kind = "constituent"
          /\ node_at(last.before, Front(p)).state.k = "Resolved"
          /\ FailedConstituent(node_at(last.before, p))
          /\ Len(collect_matches(Grammar("Grammar6").phrases, 1,
                     statement_to_match(node_at(last.before, Front(p))))) >= 2


\* C29: SentenceParser.process on a node that is in Hypothesis, Resolved or
\* Error state leaves its state, statement, constituents, children and
\* parse_data as they were, also when a phrase of the grammar matches the
\* statement.
C29_SettledNodeIgnored ==
    last.op = "sentence" =>
        LET before == node_at(last.before, last.path)
            after == node_at(roots, last.path)
        IN before.state.k \in {"Hypothesis", "Resolved", "Error"}
              => /\ after.state = before.state
                 /\ after.statement = before.statement
                 /\ after.constituents = before.constituents
                 /\ after.children = before.children
                 /\ after.parse_data = before.parse_data

\* SentenceParser.process has run on a node in Hypothesis state whose
\* statement a phrase of the grammar matches
C29_Witness ==
    /\ last.op = "sentence"
    /\ node_at(last.before, last.path).state.k = "Hypothesis"
    /\ SelectedEntry(Grammar(last.parser), node_at(last.before, last.path)) # None


\* C30: a validate_tree that follows a successful validate_tree of the
\* same nodes, with no parser run in between, returns the same Values.
C30_ValidationIdempotent ==
    [][(/\ last.op = "validate"
        /\ outcome # None
        /\ outcome[1].ok
        /\ last'.op = "validate")
       => outcome' = outcome]_vars

====
